---------------------------- MODULE Spec2Model ----------------------------
(***************************************************************************)
(* Verdict-gated execution of the execution-runtime-lab repository:        *)
(*   - the decision engine (evaluateDecision, calculateRiskScore,          *)
(*     computeDecisionHash),                                               *)
(*   - the OpenClaw adapter (receiveToolCall, the STOP/HOLD/ALLOW          *)
(*     handlers, logOpenClawDecision, the executor),                       *)
(*   - the DecisionLogger of proof/decision_logger.ts.                     *)
(*                                                                         *)
(* Strings are TLA+ strings; JSON.stringify, toLowerCase and includes are  *)
(* computed character by character.  sha256 is modelled as an injective    *)
(* tagging of its input (no collisions).  Date.now() reads the variable    *)
(* now, which never decreases; it advances between evaluations and between *)
(* logger calls, and stands still while tool calls are dispatched.         *)
(*                                                                         *)
(* File operations: fs.appendFile of one JSONL line is the sequence of     *)
(* write(2) calls appendFileWrites gives (one, on an O_APPEND descriptor), *)
(* each atomic; fs.readFile and fs.writeFile of the manifest are one step  *)
(* each, so that concurrent calls interleave between them.  A closure is   *)
(* the list of executeAction calls one invocation of it makes.             *)
(***************************************************************************)
EXTENDS Integers, Sequences, FiniteSets, TLC

\* ------------------------------------------------------------------ bounds
\* Largest instant Date.now() returns in a run, in ticks of the clock.
MaxClock == 2
\* Milliseconds between two ticks of the clock.
MillisPerTick == 60000
\* Number of evaluateDecision calls in a run of the evaluation specification.
MaxEvals == 2
\* Number of receiveToolCall calls in a run, any of them concurrent.
MaxCalls == 2
\* Number of times the caller calls execute on returned results in a run.
MaxInvocations == 2
\* Number of lines the DecisionLogger writes in a run of the logger specification.
MaxLogLines == 2
\* Number of executions mediated with the DecisionLogger hooks in a run.
MaxMediations == 2
\* Number of computeDecisionHash calls in a run of the fingerprint specification.
MaxHashes == 2
\* Pairs of tool calls, one and the same with a key added, classified in a run.
MaxPairs == 2
\* Number of extractResource calls in a run of the resource specification.
MaxExtracts == 3

\* ------------------------------------------------------------------- state
VARIABLES
    now,          \* the value Date.now() returns
    evals,        \* the evaluateDecision calls made so far: input and decision
    adapter,      \* which openclaw_adapter.ts the program was built with
    calls,        \* each receiveToolCall call: its position and its locals
    openclawLog,  \* openclaw_decisions.jsonl: the chunks written, in file order
    proofManifest,\* openclaw_intercept/proof_manifest.json
    executorRuns, \* the executeAction invocations made so far
    decisionLog,  \* decision_log.jsonl: the records DecisionLogger appended
    hookReturns,  \* what each beforeExecution call returned, in call order
    mediations,   \* each execution mediated with the hooks: position and locals
    hashes,       \* the computeDecisionHash calls made so far: arguments and digest
    artifact,     \* proof/proof_manifest.json as last generated
    generator,    \* the running generate(): its position and the decisions it read
    logAccess,    \* what readFileSync of decision_log.jsonl does: "ok" or its error
    classified,   \* pairs of tool calls classified: a call, and it with a key added
    extracted     \* the extractResource calls made so far: arguments and result

\* ------------------------------------------------------- JavaScript strings
UpperChars == "ABCDEFGHIJKLMNOPQRSTUVWXYZ"
LowerChars == "abcdefghijklmnopqrstuvwxyz"

\* String.prototype.toLowerCase on one character.
LowerChar(c) ==
    IF \E i \in 1..26 : SubSeq(UpperChars, i, i) = c
    THEN LET i == CHOOSE j \in 1..26 : SubSeq(UpperChars, j, j) = c
         IN  SubSeq(LowerChars, i, i)
    ELSE c

RECURSIVE toLowerCase(_)
toLowerCase(s) ==
    IF Len(s) = 0 THEN ""
    ELSE LowerChar(SubSeq(s, 1, 1)) \o toLowerCase(SubSeq(s, 2, Len(s)))

\* String.prototype.includes: sub occurs in s as a substring.
includes(s, sub) ==
    \E i \in 1..(Len(s) - Len(sub) + 1) : SubSeq(s, i, i + Len(sub) - 1) = sub

\* A value of the arguments object: a string, a boolean or a BigInt, s its text.
StrVal(s) == [t |-> "string", s |-> s]
BoolVal(s) == [t |-> "boolean", s |-> s]
BigIntVal(s) == [t |-> "bigint", s |-> s]

\* The value undefined where a string is expected, and String(x) of such a value.
undefined == "<undefined>"
String(x) == IF x = undefined THEN "undefined" ELSE x

\* What a call that threw yields instead of a value.
Thrown(error) == [threw |-> error]
throws(x) == "threw" \in DOMAIN x

\* JSON.stringify throws a TypeError on an object with a BigInt member.
stringifyThrows(obj) == \E i \in DOMAIN obj : obj[i].v.t = "bigint"

\* JSON.stringify of one value (the strings used need no escaping).
stringifyValue(v) == IF v.t = "string" THEN "\"" \o v.s \o "\"" ELSE v.s

RECURSIVE stringifyMembers(_)
stringifyMembers(obj) ==
    IF obj = <<>> THEN ""
    ELSE "\"" \o obj[1].k \o "\":" \o stringifyValue(obj[1].v)
         \o (IF Len(obj) > 1 THEN "," ELSE "")
         \o stringifyMembers(Tail(obj))

\* JSON.stringify of an object given as its members in insertion order.
JSONstringify(obj) == "{" \o stringifyMembers(obj) \o "}"

\* ---------------------------------------------------------- decision engine
FORBIDDEN_ACTIONS ==
    {"delete_server_files", "reverse_shell", "execute_shell", "rm_rf",
     "drop_database", "expose_secrets", "network_scan", "privilege_escalation"}

APPROVAL_REQUIRED_ACTIONS ==
    {"deploy_production", "modify_database", "send_email_blast", "delete_resource"}

\* A classifier that adds the weight of a category once per matching word.
calculateRiskScore_PerWord(input) ==
    LET args == toLowerCase(JSONstringify(input.arguments))
        hit(word, weight) == IF includes(args, word) THEN weight ELSE 0
        score == hit("rm ", 3) + hit("delete", 3) + hit("drop", 3)
                 + hit("sudo", 2) + hit("root", 2) + hit("admin", 2)
                 + hit("password", 2) + hit("secret", 2) + hit("token", 2)
                 + hit("production", 1) + hit("prod", 1)
                 + (IF includes(input.resource, "/etc/") THEN 2 ELSE 0)
                 + (IF includes(input.resource, "system") THEN 2 ELSE 0)
    IN  IF score < 10 THEN score ELSE 10

calculateRiskScore(input) ==
    LET args == toLowerCase(JSONstringify(input.arguments))
        s1 == IF includes(args, "rm ") \/ includes(args, "delete") \/ includes(args, "drop")
              THEN 3 ELSE 0
        s2 == IF includes(args, "sudo") \/ includes(args, "root") \/ includes(args, "admin")
              THEN 2 ELSE 0
        s3 == IF includes(args, "password") \/ includes(args, "secret") \/ includes(args, "token")
              THEN 2 ELSE 0
        s4 == IF includes(args, "production") \/ includes(args, "prod")
              THEN 1 ELSE 0
        s5 == IF includes(input.resource, "/etc/") \/ includes(input.resource, "system")
              THEN 2 ELSE 0
        score == s1 + s2 + s3 + s4 + s5
    IN  IF score < 10 THEN score ELSE 10

\* crypto.createHash('sha256').update(payload).digest('hex'), collision-free.
sha256(payload) == <<"sha256", payload>>

\* A fingerprint salted with the number of fingerprints computed before.
computeDecisionHash_Salted(input, verdict, timestamp) ==
    sha256(<<input.action, input.resource, input.arguments, verdict, timestamp,
             Len(hashes)>>)

\* A fingerprint that leaves the resource out of the serialization.
computeDecisionHash_NoResource(input, verdict, timestamp) ==
    sha256("{\"action\":\"" \o input.action
           \o "\",\"arguments\":" \o JSONstringify(input.arguments)
           \o ",\"verdict\":\"" \o verdict
           \o "\",\"timestamp\":" \o ToString(timestamp) \o "}")

computeDecisionHash(input, verdict, timestamp) ==
    sha256("{" \o (IF input.action = undefined THEN ""
                   ELSE "\"action\":\"" \o input.action \o "\",")
           \o "\"resource\":\"" \o input.resource
           \o "\",\"arguments\":" \o JSONstringify(input.arguments)
           \o ",\"verdict\":\"" \o verdict
           \o "\",\"timestamp\":" \o ToString(timestamp) \o "}")

\* The score-based branch with the STOP comparison strict (> for >=).
ScoreVerdict_StrictStop(riskScore) ==
    IF riskScore > 8 THEN "STOP"
    ELSE IF riskScore >= 5 THEN "HOLD"
    ELSE "ALLOW"

\* The score-based branch of evaluateDecision.
ScoreVerdict(riskScore) ==
    IF riskScore >= 8 THEN "STOP"
    ELSE IF riskScore >= 5 THEN "HOLD"
    ELSE "ALLOW"

ScoreReason(input, riskScore) ==
    IF riskScore >= 8
    THEN "Risk score " \o ToString(riskScore) \o " exceeds STOP threshold (8)"
    ELSE IF riskScore >= 5
    THEN "Risk score " \o ToString(riskScore) \o " requires approval (threshold 5)"
    ELSE "Action " \o String(input.action) \o " approved (risk score: "
         \o ToString(riskScore) \o ")"

\* FORBIDDEN_ACTIONS.includes(action), with one entry of the list lost.
isForbidden_EntryLost(action) == action \in FORBIDDEN_ACTIONS \ {"rm_rf"}

\* FORBIDDEN_ACTIONS.includes(input.action)
isForbidden(action) == action \in FORBIDDEN_ACTIONS

\* APPROVAL_REQUIRED_ACTIONS.includes(action), with one entry of the list lost.
requiresApproval_EntryLost(action) ==
    action \in APPROVAL_REQUIRED_ACTIONS \ {"delete_resource"}

\* APPROVAL_REQUIRED_ACTIONS.includes(input.action)
requiresApproval(action) == action \in APPROVAL_REQUIRED_ACTIONS

\* An engine with hidden state: it stops everything once it has evaluated a
\* proposal.
evaluateDecision_Stateful(input, timestamp) ==
    IF Len(evals) = 0
    THEN [verdict |-> "ALLOW", reason |-> "", risk_score |-> 0,
          decision_hash |-> computeDecisionHash(input, "ALLOW", timestamp),
          timestamp |-> timestamp]
    ELSE [verdict |-> "STOP", reason |-> "", risk_score |-> 10,
          decision_hash |-> computeDecisionHash(input, "STOP", timestamp),
          timestamp |-> timestamp]

\* evaluateDecision(input), with timestamp the value Date.now() returned.  On
\* every path the arguments go through JSON.stringify (calculateRiskScore or
\* computeDecisionHash), whose TypeError rejects the promise.
\* An engine whose list-based branches report the score of the arguments
\* instead of the fixed 10 and 7.
evaluateDecision_ListsKeepScore(input, timestamp) ==
    LET riskScore == calculateRiskScore(input)
        verdict == IF isForbidden(input.action) THEN "STOP"
                   ELSE IF requiresApproval(input.action) THEN "HOLD"
                   ELSE ScoreVerdict(riskScore)
    IN  [verdict |-> verdict,
         reason |-> ScoreReason(input, riskScore),
         risk_score |-> riskScore,
         decision_hash |-> computeDecisionHash(input, verdict, timestamp),
         timestamp |-> timestamp]

evaluateDecision(input, timestamp) ==
    IF stringifyThrows(input.arguments)
    THEN Thrown("TypeError: Do not know how to serialize a BigInt")
    ELSE IF isForbidden(input.action)
    THEN [verdict |-> "STOP",
          reason |-> "Forbidden action: " \o input.action \o " is categorically blocked",
          risk_score |-> 10,
          decision_hash |-> computeDecisionHash(input, "STOP", timestamp),
          timestamp |-> timestamp]
    ELSE IF requiresApproval(input.action)
    THEN [verdict |-> "HOLD",
          reason |-> "Action " \o input.action \o " requires external approval",
          risk_score |-> 7,
          decision_hash |-> computeDecisionHash(input, "HOLD", timestamp),
          timestamp |-> timestamp]
    ELSE LET riskScore == calculateRiskScore(input)
         IN  [verdict |-> ScoreVerdict(riskScore),
              reason |-> ScoreReason(input, riskScore),
              risk_score |-> riskScore,
              decision_hash |->
                  computeDecisionHash(input, ScoreVerdict(riskScore), timestamp),
              timestamp |-> timestamp]

\* ------------------------------------------------------------------ inputs
ArgsEmpty == <<>>
ArgsReadConfig == <<[k |-> "file", v |-> StrVal("/app/config.json")]>>
ArgsSudoRm ==
    <<[k |-> "command", v |-> StrVal("sudo rm -rf /data")],
      [k |-> "escalate", v |-> BoolVal("true")]>>
ArgsSudoRmOnly == <<[k |-> "command", v |-> StrVal("sudo rm -rf /data")]>>
ArgsDeleteFiles ==
    <<[k |-> "path", v |-> StrVal("/var/lib/production")],
      [k |-> "recursive", v |-> BoolVal("true")]>>
ArgsShadow ==
    <<[k |-> "path", v |-> StrVal("/etc/shadow")],
      [k |-> "note", v |-> StrVal("Admin PASSWORD drop")]>>
ArgsDropProd == <<[k |-> "command", v |-> StrVal("sudo drop prod token")]>>
ArgsPassword == <<[k |-> "password", v |-> StrVal("hunter2")]>>
ArgsRootProd ==
    <<[k |-> "user", v |-> StrVal("root")], [k |-> "env", v |-> StrVal("prod")]>>

ArgInputs ==
    {ArgsEmpty, ArgsReadConfig, ArgsSudoRm, ArgsSudoRmOnly, ArgsDeleteFiles,
     ArgsShadow, ArgsDropProd, ArgsPassword, ArgsRootProd}

ResourceInputs == {"unknown", "/etc/shadow"}

\* Arguments and resource that score 0, 4, 7 and 10.
ScoredInputs ==
    {<<ArgsEmpty, "unknown">>, <<ArgsPassword, "/etc/shadow">>,
     <<ArgsSudoRm, "/etc/shadow">>, <<ArgsDropProd, "/etc/shadow">>}

DecisionInput(a, r, g) ==
    [action |-> a, resource |-> r, arguments |-> g,
     metadata |-> [source |-> "openclaw"]]

\* The DecisionInput values evaluateDecision is applied to: an action of neither
\* list with every argument object and resource, and a forbidden, an
\* approval-required and another unlisted action with the scored inputs.
DecisionInputs ==
    {DecisionInput("execute_command", r, g) : r \in ResourceInputs, g \in ArgInputs}
    \cup {DecisionInput(a, x[2], x[1]) :
             a \in {"rm_rf", "delete_resource", "read_config"}, x \in ScoredInputs}

\* evaluateDecision and calculateRiskScore tabulated over DecisionInputs.
Decisions ==
    [input \in DecisionInputs, t \in 0..MaxClock |-> evaluateDecision(input, t)]
RiskScores == [input \in DecisionInputs |-> calculateRiskScore(input)]

\* The two receiveToolCall implementations of the repository: the one that
\* calls the handlers of src/adapter, and the one with the three branches inline.
Adapters == {"handlers", "inline"}

\* ------------------------------------------------------------ state tuples
evalVars == <<evals>>
dispatchVars == <<adapter, calls, openclawLog, proofManifest, executorRuns>>
loggerVars == <<decisionLog, hookReturns>>
hookVars == <<mediations>>
hashVars == <<hashes>>
proofVars == <<artifact, generator, logAccess>>
classifyVars == <<classified, extracted>>
vars ==
    <<now, evals, adapter, calls, openclawLog, proofManifest, executorRuns,
      decisionLog, hookReturns, mediations, hashes, artifact, generator,
      logAccess, classified, extracted>>

\* An absent value: undefined, a file that does not exist, a local not yet set.
None == [none |-> TRUE]

CallIds == 1..MaxCalls
MediationIds == 1..MaxMediations

InitMediations ==
    [m \in MediationIds |->
        [pc |-> "idle", input |-> "", policyId |-> "", decision |-> "",
         result |-> ""]]

InitCalls ==
    [c \in CallIds |->
        [pc |-> "idle", payload |-> None, input |-> None,
         decision |-> None, entry |-> None, pending |-> <<>>, manifest |-> None,
         result |-> None, returns |-> <<>>, error |-> "", appendFailed |-> FALSE]]

Init ==
    /\ now = 0
    /\ evals = <<>>
    /\ adapter \in Adapters
    /\ calls = InitCalls
    /\ openclawLog = <<>>
    /\ proofManifest = None
    /\ executorRuns = {}
    /\ decisionLog = <<>>
    /\ hookReturns = <<>>
    /\ mediations = InitMediations
    /\ hashes = <<>>
    /\ artifact = None
    /\ generator = [pc |-> "idle", decisions |-> <<>>, console |-> ""]
    /\ logAccess = "ok"
    /\ classified = <<>>
    /\ extracted = <<>>

\* Time passes.
Tick ==
    /\ now < MaxClock
    /\ now' = now + 1
    /\ UNCHANGED <<classifyVars, hashVars, proofVars, evalVars, dispatchVars, loggerVars, hookVars>>

\* ------------------------------------------- evaluation of the decision engine
\* One call of evaluateDecision on any input.
Evaluate ==
    /\ Len(evals) < MaxEvals
    /\ \E input \in DecisionInputs :
        evals' = Append(evals, [input |-> input, decision |-> Decisions[input, now]])
    /\ UNCHANGED <<classifyVars, hashVars, proofVars, now, dispatchVars, loggerVars, hookVars>>

NextEval == Evaluate \/ Tick

SpecEval == Init /\ [][NextEval]_vars

\* ------------------------------------------------------------ OpenClaw adapter
has(obj, key) == \E i \in DOMAIN obj : obj[i].k = key
get(obj, key) == obj[CHOOSE i \in DOMAIN obj : obj[i].k = key].v

\* JavaScript truthiness of an argument value.
truthy(v) ==
    CASE v.t = "string" -> v.s # ""
      [] v.t = "bigint" -> v.s # "0"
      [] OTHER -> v.s = "true"

resourceFields == <<"path", "file", "resource", "target", "host", "url">>

\* An extractResource that takes the first truthy resource member in the
\* order the caller wrote the arguments.
extractResource_ArgumentOrder(args) ==
    LET hits == {i \in DOMAIN args :
                    /\ \E f \in DOMAIN resourceFields : args[i].k = resourceFields[f]
                    /\ truthy(args[i].v)}
    IN  IF hits = {} THEN "unknown"
        ELSE args[CHOOSE i \in hits : \A j \in hits : i <= j].v.s

extractResource(args) ==
    LET hits == {i \in DOMAIN resourceFields :
                    has(args, resourceFields[i]) /\ truthy(get(args, resourceFields[i]))}
    IN  IF hits = {} THEN "unknown"
        ELSE get(args, resourceFields[CHOOSE i \in hits : \A j \in hits : i <= j]).s

\* An OpenClawToolCall; metadata is None when the caller gives none.
ToolCall(name, args, metadata) ==
    [tool_name |-> name, arguments |-> args, metadata |-> metadata]

DemoMetadata ==
    [source |-> "openclaw_mock", timestamp |-> 1, session_id |-> "session-1"]

ArgsDeploy ==
    <<[k |-> "service", v |-> StrVal("api-gateway")],
      [k |-> "version", v |-> StrVal("v2.3.0")]>>

\* The tool calls dispatched: STOP by list, HOLD by list, ALLOW, HOLD by score.
ToolCallInputs ==
    {ToolCall("delete_server_files", ArgsDeleteFiles, DemoMetadata),
     ToolCall("deploy_production", ArgsDeploy, DemoMetadata),
     ToolCall("read_config", ArgsReadConfig, DemoMetadata),
     ToolCall("execute_command", ArgsSudoRm, None)}

\* Payloads that are not well-formed tool calls: no tool_name, no arguments,
\* and arguments JSON.stringify cannot serialize (under an action of neither
\* list and under a forbidden one).
ArgsBigInt == <<[k |-> "count", v |-> BigIntVal("10")]>>

MalformedToolCalls ==
    {[arguments |-> ArgsReadConfig, metadata |-> None],
     [tool_name |-> "read_config", metadata |-> None],
     ToolCall("read_config", ArgsBigInt, None),
     ToolCall("delete_server_files", ArgsBigInt, None)}

AllToolCalls == ToolCallInputs \cup MalformedToolCalls

\* payload.tool_name
toolName(payload) ==
    IF "tool_name" \in DOMAIN payload THEN payload.tool_name ELSE undefined

\* The DecisionInput receiveToolCall builds from the payload at instant t.
toDecisionInput(payload, t) ==
    [action |-> toolName(payload),
     resource |-> extractResource(payload.arguments),
     arguments |-> payload.arguments,
     metadata |->
        IF payload.metadata = None
        THEN [source |-> "openclaw", timestamp |-> t]
        ELSE [source |-> "openclaw",
              timestamp |-> IF payload.metadata.timestamp # 0
                            THEN payload.metadata.timestamp ELSE t,
              session_id |-> payload.metadata.session_id]]

\* A receiveToolCall that answers a failed evaluation with a default ALLOW.
dispatchOutcome_FailOpen(payload, t) ==
    LET args == IF "arguments" \in DOMAIN payload THEN payload.arguments ELSE <<>>
        input == [action |-> toolName(payload), resource |-> "unknown",
                  arguments |-> args,
                  metadata |-> [source |-> "openclaw", timestamp |-> t]]
        decision == IF "arguments" \in DOMAIN payload
                    THEN evaluateDecision(toDecisionInput(payload, t), t)
                    ELSE Thrown("TypeError")
    IN  IF throws(decision)
        THEN [input |-> input,
              decision |-> [verdict |-> "ALLOW", reason |-> "", risk_score |-> 0,
                            decision_hash |-> sha256(""), timestamp |-> t]]
        ELSE [input |-> toDecisionInput(payload, t), decision |-> decision]

\* receiveToolCall(payload) at instant t up to the dispatch on the verdict:
\* the DecisionInput and the decision, or what was thrown on the way.
\* extractResource reads args[field] and throws when arguments is missing;
\* nothing catches it or a rejection of evaluateDecision.
dispatchOutcome(payload, t) ==
    IF "arguments" \notin DOMAIN payload
    THEN Thrown("TypeError: Cannot read properties of undefined (reading 'path')")
    ELSE LET input == toDecisionInput(payload, t)
             decision == evaluateDecision(input, t)
         IN  IF throws(decision) THEN decision
             ELSE [input |-> input, decision |-> decision]

\* dispatchOutcome tabulated over the tool calls dispatched.
ToolCallOutcomes ==
    [payload \in AllToolCalls, t \in 0..MaxClock |-> dispatchOutcome(payload, t)]

PROOF_MANIFEST_PATH == "proof/openclaw_intercept/proof_manifest.json"

\* a || b on strings
orElse(a, b) == IF a = "" THEN b ELSE a

\* executeAction(context) at instant t: the mock echoes its input and succeeds.
executeAction(context, t) ==
    [success |-> TRUE,
     result |-> [tool_name |-> context.tool_name, status |-> "executed",
                 arguments |-> context.arguments, timestamp |-> t],
     executed_at |-> t]

\* A closure is given by the executeAction calls one invocation of it makes and,
\* when it makes none, the value it returns; with calls it returns the result
\* of the last one.
createExecutionFunction(context) == [calls |-> <<context>>]

\* A handler that runs the action while it builds the capability.
dispatchExecutorCalls_Eager(decision, payload, t) ==
    IF decision.verdict = "ALLOW"
    THEN <<[tool_name |-> toolName(payload),
            arguments |-> payload.arguments,
            metadata |-> [source |-> "openclaw", timestamp |-> t]]>>
    ELSE <<>>

\* The executeAction calls a handler makes itself between the log write and
\* its return: none, createExecutionFunction only wraps the call in a closure.
dispatchExecutorCalls(decision, payload, t) == <<>>

\* The type guards of execution_capability.ts.
\* The members every ExecutionCapability has, whatever its verdict.
CapabilityMembers == {"verdict", "executed", "proof_path", "decision_hash", "reason"}

\* A type whose HOLD and STOP branches say execute?: () => Promise instead of
\* execute?: never.
ExecutionCapability_OptionalExecute(V, value) ==
    /\ CapabilityMembers \subseteq DOMAIN value
    /\ value.verdict = V
    /\ value.executed = FALSE
    /\ CASE V = "ALLOW" -> "execute" \in DOMAIN value
         [] V = "HOLD" -> "requires_approval" \in DOMAIN value
         [] V = "STOP" -> "blocked_at_compile_time" \in DOMAIN value

\* value is of type ExecutionCapability<V>: the members of the branch of V are
\* there with their literal types; execute is required for ALLOW, and for
\* HOLD and STOP, where it is declared execute?: never, it is absent.
ExecutionCapability(V, value) ==
    /\ CapabilityMembers \subseteq DOMAIN value
    /\ value.verdict = V
    /\ value.executed = FALSE
    /\ CASE V = "ALLOW" -> "execute" \in DOMAIN value
         [] V = "HOLD" -> /\ "execute" \notin DOMAIN value
                          /\ "requires_approval" \in DOMAIN value
                          /\ value.requires_approval = TRUE
         [] V = "STOP" -> /\ "execute" \notin DOMAIN value
                          /\ "blocked_at_compile_time" \in DOMAIN value
                          /\ value.blocked_at_compile_time = TRUE

\* A guard that lets HOLD through as well.
canExecute_NotStop(result) == result.verdict # "STOP"

canExecute(result) == result.verdict = "ALLOW"
executionAbsent(result) == result.verdict = "STOP" \/ result.verdict = "HOLD"

\* Handlers that all pass intercepted: true, as the manifest metadata has it.
handlerIntercepted_Always(verdict) == TRUE

\* The intercepted flag each handler passes to logOpenClawDecision.
handlerIntercepted(verdict) ==
    CASE verdict = "STOP" -> TRUE
      [] verdict = "HOLD" -> TRUE
      [] OTHER -> FALSE

\* A STOP handler whose capability carries an execute member.
handleStopVerdict_WithExecute(decision, proofPath) ==
    [verdict |-> "STOP",
     proof_path |-> proofPath,
     decision_hash |-> decision.decision_hash,
     reason |-> orElse(decision.reason, "Execution stopped"),
     executed |-> FALSE,
     blocked_at_compile_time |-> TRUE,
     execute |-> [calls |-> <<>>, value |-> [success |-> FALSE]]]

\* A STOP handler that leaves the reason out.
handleStopVerdict_NoReason(decision, proofPath) ==
    [verdict |-> "STOP",
     proof_path |-> proofPath,
     decision_hash |-> decision.decision_hash,
     reason |-> "",
     executed |-> FALSE,
     blocked_at_compile_time |-> TRUE]

\* The value handleStopVerdict returns.
handleStopVerdict(decision, proofPath) ==
    [verdict |-> "STOP",
     proof_path |-> proofPath,
     decision_hash |-> decision.decision_hash,
     reason |-> orElse(decision.reason, "Execution stopped"),
     executed |-> FALSE,
     blocked_at_compile_time |-> TRUE]

\* The value handleHoldVerdict returns.
handleHoldVerdict(decision, proofPath) ==
    [verdict |-> "HOLD",
     proof_path |-> proofPath,
     decision_hash |-> decision.decision_hash,
     reason |-> orElse(decision.reason, "External approval required"),
     executed |-> FALSE,
     requires_approval |-> TRUE]

\* The value handleAllowVerdict returns, t the instant after the log write.
handleAllowVerdict(decision, payload, proofPath, t) ==
    [verdict |-> "ALLOW",
     proof_path |-> proofPath,
     decision_hash |-> decision.decision_hash,
     reason |-> orElse(decision.reason, "Execution allowed"),
     executed |-> FALSE,
     execute |-> createExecutionFunction(
         [tool_name |-> toolName(payload),
          arguments |-> payload.arguments,
          metadata |-> [source |-> "openclaw", timestamp |-> t]])]

\* A dispatch whose HOLD branch is missing, so that HOLD reaches the ALLOW handler.
handlersResult_HoldFallsThrough(decision, payload, proofPath, t) ==
    IF decision.verdict = "STOP" THEN handleStopVerdict(decision, proofPath)
    ELSE handleAllowVerdict(decision, payload, proofPath, t)

\* The value the handler-based receiveToolCall returns.
handlersResult(decision, payload, proofPath, t) ==
    IF decision.verdict = "STOP" THEN handleStopVerdict(decision, proofPath)
    ELSE IF decision.verdict = "HOLD" THEN handleHoldVerdict(decision, proofPath)
    ELSE handleAllowVerdict(decision, payload, proofPath, t)

\* The value the receiveToolCall of integrations/openclaw/openclaw_adapter.ts
\* returns: the three branches are inline and execute is a canned mock.
inlineResult(decision, payload, proofPath) ==
    IF decision.verdict = "STOP"
    THEN [verdict |-> "STOP",
          proof_path |-> proofPath,
          decision_hash |-> decision.decision_hash,
          reason |-> decision.reason,
          executed |-> FALSE,
          blocked_at_compile_time |-> TRUE]
    ELSE IF decision.verdict = "HOLD"
    THEN [verdict |-> "HOLD",
          proof_path |-> proofPath,
          decision_hash |-> decision.decision_hash,
          reason |-> orElse(decision.reason, "External approval required"),
          executed |-> FALSE,
          requires_approval |-> TRUE]
    ELSE [verdict |-> "ALLOW",
          proof_path |-> proofPath,
          decision_hash |-> decision.decision_hash,
          reason |-> orElse(decision.reason, "Execution allowed"),
          executed |-> FALSE,
          execute |->
            [calls |-> <<>>,
             value |-> [success |-> TRUE,
                        result |-> [tool_name |-> toolName(payload),
                                    status |-> "executed"]]]]

\* ------------------------------------------------------- logOpenClawDecision
\* An appendFile that writes nothing.
appendFileWrites_Nothing(writer, logEntry) == <<>>

\* An appendFile that writes the line in two write(2) calls.
appendFileWrites_Split(writer, logEntry) ==
    <<[writer |-> writer, entry |-> logEntry, part |-> "head"],
      [writer |-> writer, entry |-> logEntry, part |-> "tail"]>>

\* The write(2) calls fs.appendFile makes for one line on its O_APPEND
\* descriptor: the whole line in one call.  writer is the call that appends.
appendFileWrites(writer, logEntry) ==
    <<[writer |-> writer, entry |-> logEntry, part |-> "line"]>>

\* The manifest updateProofManifest starts from when the file cannot be read.
defaultManifest(t) ==
    [decisions |-> <<>>,
     metadata |-> [source |-> "openclaw_mock", intercepted |-> TRUE,
                   generated_at |-> t]]

CountVerdict(decisions, verdict) ==
    Cardinality({i \in DOMAIN decisions : decisions[i].verdict = verdict})

\* The manifest updateProofManifest writes: the one it read, with the entry of
\* logEntry pushed and the metadata recomputed at instant t.
updatedManifest(manifest, logEntry, t) ==
    LET decisions ==
            Append(manifest.decisions,
                   [verdict |-> logEntry.decision.verdict,
                    action |-> logEntry.input.action,
                    resource |-> logEntry.input.resource,
                    risk_score |-> logEntry.decision.risk_score,
                    decision_hash |-> logEntry.decision.decision_hash,
                    timestamp |-> logEntry.decision.timestamp,
                    intercepted |-> logEntry.intercepted,
                    source |-> logEntry.source])
    IN  [decisions |-> decisions,
         metadata |-> [source |-> "openclaw_mock",
                       intercepted |-> TRUE,
                       total_decisions |-> Len(decisions),
                       stop_count |-> CountVerdict(decisions, "STOP"),
                       hold_count |-> CountVerdict(decisions, "HOLD"),
                       allow_count |-> CountVerdict(decisions, "ALLOW"),
                       generated_at |-> t]]

\* ------------------------------------------------------------------ dispatch
\* receiveToolCall(payload) up to its first file operation: the DecisionInput,
\* evaluateDecision, the handler chosen by the verdict, and the log entry that
\* logOpenClawDecision hands to fs.appendFile; or the rejection of the call
\* when building the input or evaluating it threw.
ReceiveToolCall(c, payload) ==
    /\ calls[c].pc = "idle"
    /\ c > 1 => calls[c - 1].pc # "idle"
    /\ LET outcome == ToolCallOutcomes[payload, now]
           input == outcome.input
           decision == outcome.decision
           entry == [input |-> input,
                     decision |-> decision,
                     intercepted |-> handlerIntercepted(decision.verdict),
                     source |-> "openclaw_mock",
                     logged_at |-> now]
           writes == appendFileWrites(c, entry)
       IN  IF throws(outcome)
           THEN calls' = [calls EXCEPT ![c] =
                    [@ EXCEPT !.pc = "failed", !.payload = payload,
                              !.error = outcome.threw]]
           ELSE calls' = [calls EXCEPT ![c] =
                    [@ EXCEPT !.pc = IF writes = <<>> THEN "read" ELSE "append",
                              !.payload = payload, !.input = input,
                              !.decision = decision, !.entry = entry,
                              !.pending = writes]]
    /\ UNCHANGED <<classifyVars, hashVars, proofVars, now, evalVars, loggerVars, hookVars, adapter, openclawLog, proofManifest, executorRuns>>

\* fs.appendFile: one write(2) of the pending line reaches the file.
AppendFile(c) ==
    /\ calls[c].pc = "append"
    /\ openclawLog' = Append(openclawLog, Head(calls[c].pending))
    /\ calls' = [calls EXCEPT ![c] =
            [@ EXCEPT !.pending = Tail(@),
                      !.pc = IF Len(calls[c].pending) = 1 THEN "read" ELSE "append"]]
    /\ UNCHANGED <<classifyVars, hashVars, proofVars, now, evalVars, loggerVars, hookVars, adapter, proofManifest, executorRuns>>

\* updateProofManifest: fs.readFile of the manifest, or the default one.
ReadManifest(c) ==
    /\ calls[c].pc = "read"
    /\ calls' = [calls EXCEPT ![c] =
            [@ EXCEPT !.pc = "write",
                      !.manifest = IF proofManifest = None
                                   THEN defaultManifest(now) ELSE proofManifest]]
    /\ UNCHANGED <<classifyVars, hashVars, proofVars, now, evalVars, loggerVars, hookVars, adapter, openclawLog, proofManifest, executorRuns>>

\* updateProofManifest: fs.writeFile of the updated manifest; then
\* logOpenClawDecision returns the manifest path, the handler builds its
\* capability and receiveToolCall hands it to the caller.
WriteManifest(c) ==
    /\ calls[c].pc = "write"
    /\ proofManifest' = updatedManifest(calls[c].manifest, calls[c].entry, now)
    /\ LET made == dispatchExecutorCalls(calls[c].decision, calls[c].payload, now)
       IN  executorRuns' = executorRuns \cup
                {[call |-> c, invocation |-> 0, nth |-> i, context |-> made[i],
                  result |-> executeAction(made[i], now)] : i \in DOMAIN made}
    /\ calls' = [calls EXCEPT ![c] =
            [@ EXCEPT !.pc = "returned",
                      !.result =
                        IF adapter = "handlers"
                        THEN handlersResult(calls[c].decision, calls[c].payload,
                                            PROOF_MANIFEST_PATH, now)
                        ELSE inlineResult(calls[c].decision, calls[c].payload,
                                          PROOF_MANIFEST_PATH)]]
    /\ UNCHANGED <<classifyVars, hashVars, proofVars, now, evalVars, loggerVars, hookVars, adapter, openclawLog>>

RECURSIVE SumReturns(_)
SumReturns(ids) ==
    IF ids = {} THEN 0
    ELSE LET c == CHOOSE x \in ids : TRUE
         IN  Len(calls[c].returns) + SumReturns(ids \ {c})

\* The number of execute() calls the caller has made.
Invocations == SumReturns(CallIds)

\* An execute() that, asked on a result without a handle, approves it: the
\* result becomes an ALLOW result with a handle.
InvokeExecute_Approves(c) ==
    /\ calls[c].pc = "returned"
    /\ Invocations < MaxInvocations
    /\ calls' = [calls EXCEPT ![c] =
            [@ EXCEPT !.returns = Append(@, [approved |-> TRUE]),
                      !.result = [verdict |-> "ALLOW",
                                  execute |-> [calls |-> <<>>, value |-> [approved |-> TRUE]]]]]
    /\ UNCHANGED <<classifyVars, hashVars, proofVars, now, evalVars, loggerVars, hookVars, adapter, openclawLog, proofManifest, executorRuns>>

\* The caller calls result.execute() on a returned result: a TypeError when the
\* result has no execute member; otherwise the closure runs, every executeAction
\* call it makes is an executor run, and it returns the last one's result.
InvokeExecute(c) ==
    /\ calls[c].pc = "returned"
    /\ Invocations < MaxInvocations
    /\ IF "execute" \notin DOMAIN calls[c].result
       THEN /\ calls' = [calls EXCEPT ![c].returns =
                    Append(@, [threw |-> "TypeError: result.execute is not a function"])]
            /\ UNCHANGED executorRuns
       ELSE LET closure == calls[c].result.execute
                runs == [i \in DOMAIN closure.calls |->
                            [call |-> c,
                             invocation |-> Len(calls[c].returns) + 1,
                             nth |-> i,
                             context |-> closure.calls[i],
                             result |-> executeAction(closure.calls[i], now)]]
                value == IF runs = <<>> THEN closure.value
                         ELSE runs[Len(runs)].result
            IN  /\ executorRuns' = executorRuns \cup {runs[i] : i \in DOMAIN runs}
                /\ calls' = [calls EXCEPT ![c].returns = Append(@, value)]
    /\ UNCHANGED <<classifyVars, hashVars, proofVars, now, evalVars, loggerVars, hookVars, adapter, openclawLog, proofManifest>>

Next ==
    \/ \E c \in CallIds, payload \in ToolCallInputs : ReceiveToolCall(c, payload)
    \/ \E c \in CallIds : AppendFile(c)
    \/ \E c \in CallIds : ReadManifest(c)
    \/ \E c \in CallIds : WriteManifest(c)
    \/ \E c \in CallIds : InvokeExecute(c)

Spec == Init /\ [][Next]_vars

\* ------------------------------------------- dispatch with failures
\* A logOpenClawDecision that catches the rejection of fs.appendFile and goes on.
onAppendError_Swallowed(error) == [pc |-> "read", error |-> ""]

\* What becomes of a receiveToolCall whose fs.appendFile rejects: the await in
\* logOpenClawDecision throws, no handler and no adapter catches it, and the
\* promise of receiveToolCall rejects with the error.
onAppendError(error) == [pc |-> "failed", error |-> error]

\* The errors fs.appendFile and fs.writeFile reject with.
FileErrors == {"ENOSPC: no space left on device"}

\* fs.appendFile rejects: nothing reaches the file.
AppendFileFails(c) ==
    /\ calls[c].pc = "append"
    /\ \E error \in FileErrors :
        calls' = [calls EXCEPT ![c] =
            [@ EXCEPT !.pc = onAppendError(error).pc,
                      !.error = onAppendError(error).error,
                      !.appendFailed = TRUE]]
    /\ UNCHANGED <<classifyVars, hashVars, proofVars, now, evalVars, loggerVars, hookVars, adapter, openclawLog,
                   proofManifest, executorRuns>>

\* fs.writeFile of the manifest rejects: updateProofManifest, the handler and
\* receiveToolCall reject, after the line was appended to the log.
WriteManifestFails(c) ==
    /\ calls[c].pc = "write"
    /\ \E error \in FileErrors :
        calls' = [calls EXCEPT ![c] = [@ EXCEPT !.pc = "failed", !.error = error]]
    /\ UNCHANGED <<classifyVars, hashVars, proofVars, now, evalVars, loggerVars, hookVars, adapter, openclawLog,
                   proofManifest, executorRuns>>

NextFaulty ==
    \/ \E c \in CallIds, payload \in AllToolCalls : ReceiveToolCall(c, payload)
    \/ \E c \in CallIds : AppendFile(c)
    \/ \E c \in CallIds : AppendFileFails(c)
    \/ \E c \in CallIds : ReadManifest(c)
    \/ \E c \in CallIds : WriteManifest(c)
    \/ \E c \in CallIds : WriteManifestFails(c)

SpecFaulty == Init /\ [][NextFaulty]_vars

\* ------------------------------------------------------------ DecisionLogger
\* Date.prototype.toISOString of the instant t.
toISOString(t) == <<"iso", t>>

calculateSHA256(input) == sha256(input)

\* The inputs, policy ids and arguments the logger is called with.
LoggerInputs == {"rm -rf /", "ls -la"}
PolicyIds == {"EAR_DEFAULT_POLICY"}
Verdicts == {"STOP", "HOLD", "ALLOW"}
ExecutionResults == {"success", "error"}

\* executionResult || null
orNull(executionResult) ==
    IF executionResult = "undefined" THEN "null" ELSE executionResult

\* A record that keeps the result it is given, whatever the decision.
decisionRecord_KeepsResult(input, policyId, decision, executionResult, t) ==
    [timestamp |-> toISOString(t),
     input_sha256 |-> calculateSHA256(input),
     policy_id |-> policyId,
     decision |-> decision,
     execution_attempted |-> (decision = "ALLOW"),
     execution_result |-> orNull(executionResult)]

\* A record that always says the execution was attempted.
decisionRecord_AlwaysAttempted(input, policyId, decision, executionResult, t) ==
    [timestamp |-> toISOString(t),
     input_sha256 |-> calculateSHA256(input),
     policy_id |-> policyId,
     decision |-> decision,
     execution_attempted |-> TRUE,
     execution_result |->
        IF decision = "ALLOW" THEN orNull(executionResult) ELSE "null"]

\* The Decision record logDecision builds at instant t; executionResult is
\* "undefined" when the caller leaves it out.
decisionRecord(input, policyId, decision, executionResult, t) ==
    [timestamp |-> toISOString(t),
     input_sha256 |-> calculateSHA256(input),
     policy_id |-> policyId,
     decision |-> decision,
     execution_attempted |-> (decision = "ALLOW"),
     execution_result |->
        IF decision = "ALLOW" THEN orNull(executionResult) ELSE "null"]

\* A logDecision that writes the file anew with the one record.
LogDecision_Rewrites ==
    /\ Len(decisionLog) < MaxLogLines
    /\ \E input \in {"rm -rf /", "ls -la"}, decision \in {"STOP", "HOLD", "ALLOW"} :
        decisionLog' =
            <<[timestamp |-> <<"iso", now>>,
               input_sha256 |-> sha256(input),
               policy_id |-> "EAR_DEFAULT_POLICY",
               decision |-> decision,
               execution_attempted |-> (decision = "ALLOW"),
               execution_result |-> "null"]>>
    /\ UNCHANGED <<classifyVars, hashVars, proofVars, now, evalVars, dispatchVars, hookReturns, hookVars>>

\* logDecision called directly with an input of the given set: appendFileSync
\* of one record.
LogDecisionOf(inputs) ==
    /\ Len(decisionLog) < MaxLogLines
    /\ \E input \in inputs, policyId \in PolicyIds, decision \in Verdicts,
          executionResult \in ExecutionResults \cup {"undefined"} :
        decisionLog' = Append(decisionLog,
            decisionRecord(input, policyId, decision, executionResult, now))
    /\ UNCHANGED <<classifyVars, hashVars, proofVars, now, evalVars, dispatchVars, hookReturns, hookVars>>

LogDecision == LogDecisionOf(LoggerInputs)

\* beforeExecution: STOP and HOLD are logged and answered false; ALLOW is
\* answered true and nothing is logged.
BeforeExecution ==
    /\ Len(decisionLog) < MaxLogLines
    /\ Len(hookReturns) < MaxLogLines
    /\ \E input \in LoggerInputs, policyId \in PolicyIds,
          mediationDecision \in Verdicts :
        IF mediationDecision = "STOP" \/ mediationDecision = "HOLD"
        THEN /\ decisionLog' = Append(decisionLog,
                    decisionRecord(input, policyId, mediationDecision, "undefined", now))
             /\ hookReturns' = Append(hookReturns, FALSE)
        ELSE /\ hookReturns' = Append(hookReturns, TRUE)
             /\ UNCHANGED decisionLog
    /\ UNCHANGED <<classifyVars, hashVars, proofVars, now, evalVars, dispatchVars, hookVars>>

\* afterExecution: an ALLOW record with the result of the execution.
AfterExecution ==
    /\ Len(decisionLog) < MaxLogLines
    /\ \E input \in LoggerInputs, policyId \in PolicyIds,
          result \in ExecutionResults :
        decisionLog' = Append(decisionLog,
            decisionRecord(input, policyId, "ALLOW", result, now))
    /\ UNCHANGED <<classifyVars, hashVars, proofVars, now, evalVars, dispatchVars, hookReturns, hookVars>>

NextLogger == LogDecision \/ BeforeExecution \/ AfterExecution \/ Tick

SpecLogger == Init /\ [][NextLogger]_vars

\* ------------------------------------------------------- both decision logs
\* The operations that write a decision log.  decision_log.jsonl belongs to a
\* process that uses DecisionLogger, openclaw_decisions.jsonl to one that
\* dispatches tool calls through receiveToolCall; a run is one or the other.
LoggerProcess == \A c \in CallIds : calls[c].pc = "idle"
AdapterProcess == decisionLog = <<>> /\ hookReturns = <<>>

NextLogs ==
    \/ AdapterProcess /\ \E c \in CallIds, payload \in ToolCallInputs :
                            ReceiveToolCall(c, payload)
    \/ \E c \in CallIds : AppendFile(c)
    \/ \E c \in CallIds : ReadManifest(c)
    \/ \E c \in CallIds : WriteManifest(c)
    \/ LoggerProcess /\ LogDecision
    \/ LoggerProcess /\ BeforeExecution
    \/ LoggerProcess /\ AfterExecution

SpecLogs == Init /\ [][NextLogs]_vars

\* ------------------------------------------- execution mediated by the hooks
\* The value beforeExecution returns.
\* A beforeExecution that lets HOLD proceed.
beforeExecutionReturns_HoldProceeds(mediationDecision) == mediationDecision # "STOP"

beforeExecutionReturns(mediationDecision) ==
    ~(mediationDecision = "STOP" \/ mediationDecision = "HOLD")

\* The records beforeExecution appends at instant t.
beforeExecutionRecords(input, policyId, mediationDecision, t) ==
    IF mediationDecision = "STOP" \/ mediationDecision = "HOLD"
    THEN <<decisionRecord(input, policyId, mediationDecision, "undefined", t)>>
    ELSE <<>>

\* The caller mediates an execution: it calls beforeExecution with the
\* decision; false blocks the execution, true lets it proceed.
HookBefore(m) ==
    /\ mediations[m].pc = "idle"
    /\ m > 1 => mediations[m - 1].pc # "idle"
    /\ \E input \in LoggerInputs, policyId \in PolicyIds,
          mediationDecision \in Verdicts :
        /\ decisionLog' = decisionLog \o
                beforeExecutionRecords(input, policyId, mediationDecision, now)
        /\ hookReturns' =
                Append(hookReturns, beforeExecutionReturns(mediationDecision))
        /\ mediations' = [mediations EXCEPT ![m] =
                [@ EXCEPT !.pc = IF beforeExecutionReturns(mediationDecision)
                                 THEN "allowed" ELSE "blocked",
                          !.input = input, !.policyId = policyId,
                          !.decision = mediationDecision]]
    /\ UNCHANGED <<classifyVars, hashVars, proofVars, now, evalVars, dispatchVars>>

\* The execution the hooks gate takes place and succeeds or fails.
HookExecute(m) ==
    /\ mediations[m].pc = "allowed"
    /\ \E result \in ExecutionResults :
        mediations' = [mediations EXCEPT ![m] =
            [@ EXCEPT !.pc = "executed", !.result = result]]
    /\ UNCHANGED <<classifyVars, hashVars, proofVars, now, evalVars, dispatchVars, loggerVars>>

\* The caller reports the result of the execution with afterExecution.
HookAfter(m) ==
    /\ mediations[m].pc = "executed"
    /\ decisionLog' = Append(decisionLog,
            decisionRecord(mediations[m].input, mediations[m].policyId, "ALLOW",
                           mediations[m].result, now))
    /\ mediations' = [mediations EXCEPT ![m].pc = "reported"]
    /\ UNCHANGED <<classifyVars, hashVars, proofVars, now, evalVars, dispatchVars, hookReturns>>

NextHooks ==
    \/ \E m \in MediationIds : HookBefore(m)
    \/ \E m \in MediationIds : HookExecute(m)
    \/ \E m \in MediationIds : HookAfter(m)
    \/ Tick

SpecHooks == Init /\ [][NextHooks]_vars

\* ---------------------------------------------------- ProofArtifactGenerator
\* new Date(timestamp).getTime(), in milliseconds.
getTime(timestamp) == timestamp[2] * MillisPerTick

sessionGapMs == 60000

\* A loop that closes the session as soon as the gap reaches sessionGapMs.
RECURSIVE groupFrom_SplitsAtGap(_, _, _, _)
groupFrom_SplitsAtGap(decisions, i, sessions, currentSession) ==
    IF i > Len(decisions) THEN Append(sessions, currentSession)
    ELSE LET prevTime == getTime(decisions[i - 1].timestamp)
             currTime == getTime(decisions[i].timestamp)
         IN  IF currTime - prevTime >= sessionGapMs
             THEN groupFrom_SplitsAtGap(decisions, i + 1,
                                        Append(sessions, currentSession),
                                        <<decisions[i]>>)
             ELSE groupFrom_SplitsAtGap(decisions, i + 1, sessions,
                                        Append(currentSession, decisions[i]))

\* The loop of groupBySession from index i on: sessions closed so far and the
\* session being filled.
RECURSIVE groupFrom(_, _, _, _)
groupFrom(decisions, i, sessions, currentSession) ==
    IF i > Len(decisions) THEN Append(sessions, currentSession)
    ELSE LET prevTime == getTime(decisions[i - 1].timestamp)
             currTime == getTime(decisions[i].timestamp)
         IN  IF currTime - prevTime > sessionGapMs
             THEN groupFrom(decisions, i + 1, Append(sessions, currentSession),
                            <<decisions[i]>>)
             ELSE groupFrom(decisions, i + 1, sessions,
                            Append(currentSession, decisions[i]))

groupBySession(decisions) ==
    IF Len(decisions) = 0 THEN <<>>
    ELSE groupFrom(decisions, 2, <<>>, <<decisions[1]>>)

\* decisions.filter(pred).length for the filters of generateManifest.
CountDecision(decisions, verdict) ==
    Cardinality({i \in DOMAIN decisions : decisions[i].decision = verdict})
CountResult(decisions, result) ==
    Cardinality({i \in DOMAIN decisions : decisions[i].execution_result = result})

DECISION_LOG_FILE == "decision_log.jsonl"

\* The members of the manifest literal, in the order they are written.
ManifestKeys ==
    <<"generated_at", "session_id", "log_file", "total_decisions", "stop_count",
      "hold_count", "allow_count", "execution_success_count",
      "execution_error_count", "decisions">>

\* JSON.stringify(obj, null, 2) of an object with the given member order: the
\* text is determined by the sequence of its members.
stringifyPretty(members) == <<"json", members>>
stringifyObject(obj, keys) ==
    stringifyPretty([i \in DOMAIN keys |-> [k |-> keys[i], v |-> obj[keys[i]]]])

\* JSON.parse of such a text: the members in the order of the text.
parseMembers(text) == text[2]

\* A manifest whose digest covers the counts only.
generateManifest_DigestOfCounts(sessionId, decisions, t) ==
    [body |-> [generated_at |-> toISOString(t),
               session_id |-> sessionId,
               log_file |-> "decision_log.jsonl",
               total_decisions |-> Len(decisions),
               stop_count |-> Cardinality({i \in DOMAIN decisions : decisions[i].decision = "STOP"}),
               hold_count |-> Cardinality({i \in DOMAIN decisions : decisions[i].decision = "HOLD"}),
               allow_count |-> Cardinality({i \in DOMAIN decisions : decisions[i].decision = "ALLOW"}),
               execution_success_count |-> Cardinality({i \in DOMAIN decisions : decisions[i].execution_result = "success"}),
               execution_error_count |-> Cardinality({i \in DOMAIN decisions : decisions[i].execution_result = "error"}),
               decisions |-> decisions],
     manifest_sha256 |-> sha256(<<Len(decisions)>>)]

\* generateManifest at instant t, with no adversarial_report.json in proofDir:
\* the manifest and the digest of its serialization without the digest field.
generateManifest(sessionId, decisions, t) ==
    LET manifest ==
            [generated_at |-> toISOString(t),
             session_id |-> sessionId,
             log_file |-> DECISION_LOG_FILE,
             total_decisions |-> Len(decisions),
             stop_count |-> CountDecision(decisions, "STOP"),
             hold_count |-> CountDecision(decisions, "HOLD"),
             allow_count |-> CountDecision(decisions, "ALLOW"),
             execution_success_count |-> CountResult(decisions, "success"),
             execution_error_count |-> CountResult(decisions, "error"),
             decisions |-> decisions]
    IN  [body |-> manifest,
         manifest_sha256 |-> calculateSHA256(stringifyObject(manifest, ManifestKeys))]

\* JSON.stringify(manifest, null, 2) as generate writes it: the members of the
\* body followed by manifest_sha256, which was assigned last.
writtenManifest(manifest) ==
    stringifyPretty(
        Append(parseMembers(stringifyObject(manifest.body, ManifestKeys)),
               [k |-> "manifest_sha256", v |-> manifest.manifest_sha256]))

\* The summary text: the members of the manifest it interpolates, in order.
generateSummary(manifest) ==
    <<"summary", manifest.body.generated_at, manifest.body.session_id,
      manifest.body.log_file, manifest.body.total_decisions,
      manifest.body.stop_count, manifest.body.hold_count,
      manifest.body.allow_count, manifest.body.execution_success_count,
      manifest.body.execution_error_count, manifest.manifest_sha256>>

\* A line of the log that JSON.parse rejects.
BrokenLine == [text |-> "{\"timestamp\":"]
isJSON(line) == "text" \notin DOMAIN line

\* The ways readFileSync of the log ends: with its content, or throwing because
\* the file is missing or may not be read.
LogAccesses == {"ok", "ENOENT", "EACCES"}

\* A readDecisionLog that leaves out the lines JSON.parse rejects.
readDecisionLog_SkipsBrokenLines(access, lines) ==
    IF access # "ok" THEN <<>> ELSE SelectSeq(lines, isJSON)

\* readDecisionLog: the parsed lines of the log, or [] when readFileSync or
\* the JSON.parse of any line throws.
readDecisionLog(access, lines) ==
    IF access # "ok" THEN <<>>
    ELSE IF \E i \in DOMAIN lines : ~isJSON(lines[i]) THEN <<>>
    ELSE lines

NoDecisionsFound == "No decisions found in log. Exiting."
GeneratingProofArtifact == "=== Generating Proof Artifact ==="
GeneratedSummary == "Generated: summary.txt"

\* generate() up to the end of readDecisionLog: readFileSync reads the log
\* whole; with no decision generate prints that it found none and returns, and
\* nothing is written.  console is the line generate printed last.
GenerateRead ==
    /\ generator.pc = "idle"
    /\ LET decisions == readDecisionLog(logAccess, decisionLog)
       IN  generator' = IF Len(decisions) = 0
                        THEN [generator EXCEPT !.console = NoDecisionsFound]
                        ELSE [pc |-> "read", decisions |-> decisions,
                              console |-> GeneratingProofArtifact]
    /\ UNCHANGED <<classifyVars, artifact, logAccess, now, evalVars, dispatchVars, loggerVars, hookVars, hashVars>>

\* A generate() that reads the log again when it builds the manifest.
GenerateWrite_LiveView ==
    /\ generator.pc = "read"
    /\ LET sessions == groupBySession(decisionLog)
           latestSession == sessions[Len(sessions)]
           manifest == generateManifest(<<"session-", latestSession[1].timestamp>>,
                                        latestSession, now)
       IN  artifact' = [manifest |-> manifest,
                        file |-> writtenManifest(manifest),
                        summary |-> generateSummary(manifest),
                        read |-> generator.decisions,
                        sessions |-> sessions,
                        logLinesAtWrite |-> Len(decisionLog)]
    /\ generator' = [pc |-> "idle", decisions |-> <<>>, console |-> GeneratedSummary]
    /\ UNCHANGED <<classifyVars, logAccess, now, evalVars, dispatchVars, loggerVars, hookVars, hashVars>>

\* The rest of generate(): the manifest of the latest session of the decisions
\* read is built and written.  file is the content of proof_manifest.json;
\* summary that of summary.txt;
\* read is the content of the log as generate read it, sessions what
\* groupBySession returned for it, and logLinesAtWrite the number of lines the
\* log has when the manifest is written.
GenerateWrite ==
    /\ generator.pc = "read"
    /\ LET decisions == generator.decisions
           sessions == groupBySession(decisions)
           latestSession == sessions[Len(sessions)]
           sessionId == <<"session-", latestSession[1].timestamp>>
           manifest == generateManifest(sessionId, latestSession, now)
       IN  artifact' = [manifest |-> manifest,
                        file |-> writtenManifest(manifest),
                        summary |-> generateSummary(manifest),
                        read |-> decisions,
                        sessions |-> sessions,
                        logLinesAtWrite |-> Len(decisionLog)]
    /\ generator' = [pc |-> "idle", decisions |-> <<>>, console |-> GeneratedSummary]
    /\ UNCHANGED <<classifyVars, logAccess, now, evalVars, dispatchVars, loggerVars, hookVars, hashVars>>

\* The inputs of the decisions in the log the generator is run on.
ProofInputs == {"rm -rf /"}

NextProof == LogDecisionOf(ProofInputs) \/ Tick \/ GenerateRead \/ GenerateWrite

SpecProof == Init /\ [][NextProof]_vars

\* ------------------------------------------------ a log generate cannot read
\* The log is removed.
RemoveLog ==
    /\ logAccess = "ok"
    /\ logAccess' = "ENOENT"
    /\ decisionLog' = <<>>
    /\ UNCHANGED <<classifyVars, artifact, generator, now, evalVars, dispatchVars, hookReturns, hookVars, hashVars>>

\* The permission to read the log is taken away.
RevokeLog ==
    /\ logAccess = "ok"
    /\ logAccess' = "EACCES"
    /\ UNCHANGED <<classifyVars, artifact, generator, now, evalVars, dispatchVars, loggerVars, hookVars, hashVars>>

\* A line that is not JSON gets into the log.
BreakLine ==
    /\ logAccess = "ok"
    /\ Len(decisionLog) < MaxLogLines
    /\ decisionLog' = Append(decisionLog, BrokenLine)
    /\ UNCHANGED <<classifyVars, proofVars, now, evalVars, dispatchVars, hookReturns, hookVars, hashVars>>

\* The generator run on logs in every condition; DecisionLogger appends while
\* the log is there and may be read.
NextBrokenLog ==
    \/ logAccess = "ok" /\ LogDecisionOf(ProofInputs)
    \/ Tick
    \/ GenerateRead
    \/ GenerateWrite
    \/ RemoveLog
    \/ RevokeLog
    \/ BreakLine

SpecBrokenLog == Init /\ [][NextBrokenLog]_vars

\* ------------------------------------------- the caller keeps the payload
\* obj[key] = value on an arguments object: the member is replaced where it
\* is, or added after the others.
setKey(args, member) ==
    IF has(args, member.k)
    THEN [i \in DOMAIN args |-> IF args[i].k = member.k THEN member ELSE args[i]]
    ELSE Append(args, member)

\* What the caller writes into a payload it has dispatched.
CallerMembers == {[k |-> "command", v |-> StrVal("rm -rf /")]}
CallerToolNames == {"delete_server_files"}

\* After receiveToolCall returned, the caller sets a key of payload.arguments.
\* decisionInput.arguments and, for ALLOW, executionContext.arguments are that
\* same object, so the DecisionInput and the context the closure holds change
\* with it; the decision and the line handed to the log were made before.
CallerSetsArgument(c) ==
    /\ calls[c].pc = "returned"
    /\ \E m \in CallerMembers :
        /\ ~has(calls[c].payload.arguments, m.k)
        /\ LET args == setKey(calls[c].payload.arguments, m)
               result == calls[c].result
           IN  calls' = [calls EXCEPT ![c] =
                    [@ EXCEPT !.payload = [@ EXCEPT !.arguments = args],
                              !.input = [@ EXCEPT !.arguments = args],
                              !.result =
                                IF "execute" \in DOMAIN result
                                THEN [result EXCEPT !.execute.calls =
                                        [i \in DOMAIN @ |-> [@[i] EXCEPT !.arguments = args]]]
                                ELSE result]]
    /\ UNCHANGED <<classifyVars, hashVars, proofVars, now, evalVars, loggerVars, hookVars, adapter, openclawLog, proofManifest, executorRuns>>

\* After receiveToolCall returned, the caller assigns payload.tool_name:
\* action and executionContext.tool_name hold the string read before.
CallerAssignsToolName(c) ==
    /\ calls[c].pc = "returned"
    /\ \E name \in CallerToolNames :
        /\ calls[c].payload.tool_name # name
        /\ calls' = [calls EXCEPT ![c].payload = [@ EXCEPT !.tool_name = name]]
    /\ UNCHANGED <<classifyVars, hashVars, proofVars, now, evalVars, loggerVars, hookVars, adapter, openclawLog, proofManifest, executorRuns>>

NextCaller ==
    \/ \E c \in CallIds, payload \in ToolCallInputs : ReceiveToolCall(c, payload)
    \/ \E c \in CallIds : AppendFile(c)
    \/ \E c \in CallIds : ReadManifest(c)
    \/ \E c \in CallIds : WriteManifest(c)
    \/ \E c \in CallIds : InvokeExecute(c)
    \/ \E c \in CallIds : CallerSetsArgument(c)
    \/ \E c \in CallIds : CallerAssignsToolName(c)

SpecCaller == Init /\ [][NextCaller]_vars

\* ------------------------------------------------- classification of a call
\* args with one more key: the member is added after the ones there are.
withKey(args, member) == Append(args, member)

ArgsShadowFile ==
    <<[k |-> "file", v |-> StrVal("/etc/shadow")],
      [k |-> "note", v |-> StrVal("Admin PASSWORD drop")]>>
ArgsSystemTarget == <<[k |-> "target", v |-> StrVal("system32")]>>

\* The tool calls classified, and the members added to their arguments.
ClassifiedCalls ==
    {ToolCall("read_file", ArgsShadowFile, None),
     ToolCall("read_file", ArgsSystemTarget, None),
     ToolCall("execute_command", ArgsSudoRm, None),
     ToolCall("run_query", ArgsEmpty, None),
     ToolCall("deploy_production", ArgsDeploy, None)}
AddedMembers ==
    {[k |-> "path", v |-> StrVal("/tmp/out")],
     [k |-> "path", v |-> StrVal("")],
     [k |-> "comment", v |-> StrVal("drop the root token in prod")],
     [k |-> "dry_run", v |-> BoolVal("true")]}

ExtendedCalls ==
    {ToolCall(p.tool_name, withKey(p.arguments, m), p.metadata) :
        p \in ClassifiedCalls, m \in AddedMembers}

\* The classification of receiveToolCall tabulated over these calls.
Classifications ==
    [payload \in ClassifiedCalls \cup ExtendedCalls, t \in 0..MaxClock |->
        dispatchOutcome(payload, t)]

\* receiveToolCall classifies a call, and the same call with one key more.
ClassifyPair ==
    /\ Len(classified) < MaxPairs
    /\ \E p \in ClassifiedCalls, m \in AddedMembers :
        /\ ~has(p.arguments, m.k)
        /\ classified' = Append(classified,
                [payload |-> p,
                 added |-> m,
                 before |-> Classifications[p, now].decision,
                 after |-> Classifications[
                     ToolCall(p.tool_name, withKey(p.arguments, m), p.metadata),
                     now].decision])
    /\ UNCHANGED <<extracted, now, evalVars, dispatchVars, loggerVars, hookVars, hashVars, proofVars>>

NextClassify == ClassifyPair \/ Tick

SpecClassify == Init /\ [][NextClassify]_vars

\* ------------------------------------------------------------------ resource
\* Arguments with no, one and several resource members, truthy and falsy,
\* strings and not, written in and out of the order of resourceFields.
ResourceArgs ==
    {ArgsEmpty,
     ArgsDeploy,
     ArgsReadConfig,
     <<[k |-> "file", v |-> StrVal("/etc/shadow")],
       [k |-> "path", v |-> StrVal("/tmp/out")]>>,
     <<[k |-> "path", v |-> StrVal("")],
       [k |-> "file", v |-> StrVal("/app/config.json")]>>,
     <<[k |-> "path", v |-> StrVal("")],
       [k |-> "host", v |-> BoolVal("false")],
       [k |-> "url", v |-> BigIntVal("0")]>>,
     <<[k |-> "url", v |-> BoolVal("true")],
       [k |-> "target", v |-> StrVal("system32")]>>,
     <<[k |-> "host", v |-> BigIntVal("0")],
       [k |-> "url", v |-> BigIntVal("7")]>>,
     <<[k |-> "service", v |-> StrVal("api-gateway")],
       [k |-> "resource", v |-> BoolVal("true")]>>}

\* extractResource is called on the arguments of a tool call.
ExtractResource ==
    /\ Len(extracted) < MaxExtracts
    /\ \E args \in ResourceArgs :
        extracted' = Append(extracted,
                            [arguments |-> args, resource |-> extractResource(args)])
    /\ UNCHANGED <<classified, now, evalVars, dispatchVars, loggerVars, hookVars, hashVars, proofVars>>

NextResource == ExtractResource

SpecResource == Init /\ [][NextResource]_vars

\* --------------------------------------------------------------- fingerprint
\* Proposals that differ from the first in one field each: action, resource,
\* arguments, session id and source of the metadata.
HashInputBase ==
    [action |-> "execute_command", resource |-> "unknown", arguments |-> ArgsEmpty,
     metadata |-> [source |-> "openclaw", timestamp |-> 1, session_id |-> "session-1"]]

\* The members of ArgsSudoRm, inserted in the other order.
ArgsSudoRmReordered ==
    <<[k |-> "escalate", v |-> BoolVal("true")],
      [k |-> "command", v |-> StrVal("sudo rm -rf /data")]>>

HashInputs ==
    {HashInputBase,
     [HashInputBase EXCEPT !.action = "read_config"],
     [HashInputBase EXCEPT !.resource = "/etc/shadow"],
     [HashInputBase EXCEPT !.arguments = ArgsReadConfig],
     [HashInputBase EXCEPT !.arguments = ArgsSudoRm],
     [HashInputBase EXCEPT !.arguments = ArgsSudoRmReordered],
     [HashInputBase EXCEPT !.metadata.session_id = "session-2"],
     [HashInputBase EXCEPT !.metadata.source = "openclaw_mock"]}

\* One call of computeDecisionHash with any proposal and verdict, the
\* timestamp being the instant of the decision.
ComputeDecisionHash ==
    /\ Len(hashes) < MaxHashes
    /\ \E input \in HashInputs, verdict \in Verdicts :
        hashes' = Append(hashes,
            [input |-> input, verdict |-> verdict, timestamp |-> now,
             decision_hash |-> computeDecisionHash(input, verdict, now)])
    /\ UNCHANGED <<classifyVars, proofVars, now, evalVars, dispatchVars, loggerVars, hookVars>>

NextHash == ComputeDecisionHash \/ Tick

SpecHash == Init /\ [][NextHash]_vars

\* ------------------------------------------------------------------ claims
InNeitherList(action) ==
    action \notin FORBIDDEN_ACTIONS /\ action \notin APPROVAL_REQUIRED_ACTIONS

\* How restrictive a verdict is.
Restrictiveness(verdict) ==
    CASE verdict = "ALLOW" -> 0 [] verdict = "HOLD" -> 1 [] verdict = "STOP" -> 2

\* C1: every evaluation of a proposal whose action is one of the always-block
\* identifiers returns STOP, whatever its arguments, resource and metadata.
C1_ForbiddenActionStops ==
    \A i \in DOMAIN evals :
        evals[i].input.action \in FORBIDDEN_ACTIONS
            => evals[i].decision.verdict = "STOP"

\* A forbidden action whose arguments and resource score 0 was stopped.
C1_Witness ==
    \E i \in DOMAIN evals :
        /\ evals[i].input.action = "rm_rf"
        /\ RiskScores[evals[i].input] = 0
        /\ evals[i].decision.verdict = "STOP"

\* C2: every evaluation of a proposal whose action is approval-required and not
\* forbidden returns HOLD, whatever risk score its arguments would give.
C2_ApprovalActionHolds ==
    \A i \in DOMAIN evals :
        (/\ evals[i].input.action \in APPROVAL_REQUIRED_ACTIONS
         /\ evals[i].input.action \notin FORBIDDEN_ACTIONS)
            => evals[i].decision.verdict = "HOLD"

\* Approval-required actions were held both with arguments that score 10 and
\* with arguments that score 0.
C2_Witness ==
    /\ Len(evals) = 2
    /\ evals[1].input.action = "delete_resource"
    /\ RiskScores[evals[1].input] = 10
    /\ evals[1].decision.verdict = "HOLD"
    /\ evals[2].input.action = "delete_resource"
    /\ RiskScores[evals[2].input] = 0
    /\ evals[2].decision.verdict = "HOLD"

\* C3: for an action in neither list the verdict is decided by the risk score
\* alone (>= 8 STOP, 5..7 HOLD, < 5 ALLOW), and of two such evaluations the one
\* with the higher score never has the less restrictive verdict.
C3_ScoreDecidesVerdict ==
    /\ \A i \in DOMAIN evals :
        InNeitherList(evals[i].input.action) =>
            LET score == RiskScores[evals[i].input]
                verdict == evals[i].decision.verdict
            IN  /\ evals[i].decision.risk_score = score
                /\ score >= 8 => verdict = "STOP"
                /\ (5 <= score /\ score <= 7) => verdict = "HOLD"
                /\ score < 5 => verdict = "ALLOW"
    /\ \A i, j \in DOMAIN evals :
        (/\ InNeitherList(evals[i].input.action)
         /\ InNeitherList(evals[j].input.action)
         /\ evals[i].decision.risk_score <= evals[j].decision.risk_score)
            => Restrictiveness(evals[i].decision.verdict)
                 <= Restrictiveness(evals[j].decision.verdict)

\* Two evaluations on either side of the STOP threshold: 7 held, 8 stopped.
C3_Witness ==
    /\ Len(evals) = 2
    /\ InNeitherList(evals[1].input.action)
    /\ InNeitherList(evals[2].input.action)
    /\ evals[1].decision.risk_score = 7 /\ evals[1].decision.verdict = "HOLD"
    /\ evals[2].decision.risk_score = 8 /\ evals[2].decision.verdict = "STOP"

\* The calls whose receiveToolCall has handed its result to the caller, and
\* those still between their first file operation and their return.
ReturnedCalls == {c \in CallIds : calls[c].pc = "returned"}
InFlightCalls == {c \in CallIds : calls[c].pc \in {"append", "read", "write"}}

\* The executor invocations made for call c.
RunsOf(c) == {run \in executorRuns : run.call = c}

\* 'execute' in result
hasExecute(result) == "execute" \in DOMAIN result

\* C4: every result receiveToolCall returns with verdict STOP or HOLD has no
\* execute member, and every result with verdict ALLOW has one; the verdict of
\* the result is the verdict of the decision.
C4_ExecuteMemberOnlyOnAllow ==
    \A c \in ReturnedCalls :
        LET result == calls[c].result
        IN  /\ result.verdict = calls[c].decision.verdict
            /\ executionAbsent(result) => ~hasExecute(result)
            /\ canExecute(result) => hasExecute(result)

\* A STOP result without an execute member and an ALLOW result with one have
\* both been returned.
C4_Witness ==
    \E c, d \in ReturnedCalls :
        /\ calls[c].result.verdict = "STOP" /\ ~hasExecute(calls[c].result)
        /\ calls[d].result.verdict = "ALLOW" /\ hasExecute(calls[d].result)

\* C5: every executor invocation belongs to a tool call that was dispatched
\* with verdict ALLOW and whose execute handle the caller invoked; a call
\* decided STOP or HOLD has no executor invocation.
C5_ExecutorOnlyFromAllowHandle ==
    /\ \A run \in executorRuns :
        /\ calls[run.call].pc = "returned"
        /\ calls[run.call].decision.verdict = "ALLOW"
        /\ run.context.tool_name = calls[run.call].payload.tool_name
        /\ run.invocation \in 1..Len(calls[run.call].returns)
    /\ \A c \in CallIds :
        (calls[c].pc # "idle" /\ calls[c].decision.verdict \in {"STOP", "HOLD"})
            => RunsOf(c) = {}

\* The executor ran for an ALLOW call, and the caller tried execute on a
\* STOP or HOLD result without reaching the executor.
C5_Witness ==
    \E c, d \in ReturnedCalls :
        /\ calls[c].decision.verdict = "ALLOW" /\ RunsOf(c) # {}
        /\ calls[d].decision.verdict \in {"STOP", "HOLD"}
        /\ Len(calls[d].returns) = 1 /\ RunsOf(d) = {}

\* C6: for every ALLOW result, each invocation of its execute handle calls the
\* executor exactly once and returns the result of that call.
C6_ExecuteForwardsToExecutorOnce ==
    \A c \in ReturnedCalls :
        calls[c].result.verdict = "ALLOW" =>
            \A k \in DOMAIN calls[c].returns :
                LET made == {run \in RunsOf(c) : run.invocation = k}
                IN  /\ Cardinality(made) = 1
                    /\ \A run \in made : calls[c].returns[k] = run.result

\* C7: dispatch executes nothing: a call whose execute handle has not been
\* invoked, returned or not, has no executor invocation, and every executor
\* invocation is made by one of the caller's invocations of the handle.
C7_DispatchExecutesNothing ==
    /\ \A c \in CallIds : Len(calls[c].returns) = 0 => RunsOf(c) = {}
    /\ \A run \in executorRuns : run.invocation >= 1

\* One ALLOW capability has been returned and not invoked, with no executor
\* invocation; another has been invoked and the executor ran.
C7_Witness ==
    \E c, d \in ReturnedCalls :
        /\ calls[c].result.verdict = "ALLOW" /\ hasExecute(calls[c].result)
        /\ Len(calls[c].returns) = 0 /\ RunsOf(c) = {}
        /\ calls[d].result.verdict = "ALLOW" /\ RunsOf(d) # {}

\* The chunk at position i of the log starts a complete line: a whole line, or
\* a head directly followed by its own tail.
CompleteLineAt(i) ==
    \/ openclawLog[i].part = "line"
    \/ /\ openclawLog[i].part = "head"
       /\ i < Len(openclawLog)
       /\ openclawLog[i + 1].part = "tail"
       /\ openclawLog[i + 1].writer = openclawLog[i].writer

\* The chunk at position i is part of a complete line.
InCompleteLine(i) ==
    \/ CompleteLineAt(i)
    \/ openclawLog[i].part = "tail" /\ i > 1 /\ CompleteLineAt(i - 1)
                                    /\ openclawLog[i - 1].part = "head"

CompleteLines == {i \in DOMAIN openclawLog : CompleteLineAt(i)}
LinesOf(c) == {i \in CompleteLines : openclawLog[i].writer = c}

\* C8: whenever receiveToolCall has handed a capability back, the complete
\* record of its decision is in the decision log.
C8_LoggedBeforeReturned ==
    \A c \in ReturnedCalls :
        \E i \in LinesOf(c) :
            /\ openclawLog[i].entry = calls[c].entry
            /\ openclawLog[i].entry.decision = calls[c].decision

\* An ALLOW capability has been returned with its record in the log, and the
\* record of another call is in the log while that call has not yet returned.
C8_Witness ==
    /\ \E c \in ReturnedCalls : calls[c].decision.verdict = "ALLOW" /\ LinesOf(c) # {}
    /\ \E c \in CallIds : calls[c].pc \in {"read", "write"} /\ LinesOf(c) # {}

C10_AttemptedIffAllow ==
    \A i \in DOMAIN decisionLog :
        decisionLog[i].execution_attempted <=> decisionLog[i].decision = "ALLOW"

\* A STOP record written by beforeExecution with execution_attempted false,
\* followed by an ALLOW record with execution_attempted true.
C10_Witness ==
    /\ Len(decisionLog) = 2
    /\ hookReturns = <<FALSE>>
    /\ decisionLog[1].decision = "STOP" /\ ~decisionLog[1].execution_attempted
    /\ decisionLog[2].decision = "ALLOW" /\ decisionLog[2].execution_attempted

\* The mediations of a given input whose decision is ALLOW and whose execution
\* has taken place, and the ALLOW records of that input in the decision log.
ExecutedMediations(input) ==
    {m \in MediationIds : /\ mediations[m].input = input
                          /\ mediations[m].pc \in {"executed", "reported"}}
AllowRecords(input) ==
    {i \in DOMAIN decisionLog : /\ decisionLog[i].input_sha256 = calculateSHA256(input)
                                /\ decisionLog[i].decision = "ALLOW"}

\* C11: with the hooks, the record of a decision is in the decision log before
\* the execution it gates takes place: every execution that has taken place
\* has its ALLOW record in the log, and a STOP or HOLD decision is recorded
\* as soon as beforeExecution has answered.
C11_DecisionLoggedBeforeExecution ==
    /\ \A input \in LoggerInputs :
        Cardinality(AllowRecords(input)) >= Cardinality(ExecutedMediations(input))
    /\ \A m \in MediationIds :
        mediations[m].pc = "blocked" =>
            \E i \in DOMAIN decisionLog :
                /\ decisionLog[i].input_sha256 = calculateSHA256(mediations[m].input)
                /\ decisionLog[i].decision = mediations[m].decision

\* The calls that have been made and whose receiveToolCall rejected.
FailedCalls == {c \in CallIds : calls[c].pc = "failed"}

\* C12: a receiveToolCall whose append of the audit record failed is rejected
\* with the error: it returns no capability, whatever the verdict, and goes no
\* further (its line is not in the log and it never updates the manifest).
C12_AppendFailureRejects ==
    \A c \in CallIds :
        calls[c].appendFailed =>
            /\ calls[c].pc = "failed"
            /\ calls[c].error \in FileErrors
            /\ calls[c].result = None
            /\ LinesOf(c) = {}
            /\ calls[c].manifest = None

\* The appends of an ALLOW call and of a STOP call have both failed.
C12_Witness ==
    \E c, d \in FailedCalls :
        /\ calls[c].appendFailed /\ calls[c].decision.verdict = "ALLOW"
        /\ calls[d].appendFailed /\ calls[d].decision.verdict = "STOP"

\* The calls made with a payload that has no tool_name.
CallsWithoutAction ==
    {c \in CallIds : calls[c].pc # "idle" /\ "tool_name" \notin DOMAIN calls[c].payload}

\* C13: a proposal without an action is rejected before classification: the
\* call fails, no decision is produced, no capability is returned and no audit
\* record is written for it.
C13_MissingActionRejected ==
    \A c \in CallsWithoutAction :
        /\ calls[c].pc = "failed"
        /\ calls[c].decision = None
        /\ calls[c].result = None
        /\ LinesOf(c) = {}

\* The calls made with a payload whose input cannot be built (no arguments
\* to read the resource from) or evaluated (arguments that cannot be
\* serialized).
CallsThatThrow ==
    {c \in CallIds :
        /\ calls[c].pc # "idle"
        /\ \/ "arguments" \notin DOMAIN calls[c].payload
           \/ stringifyThrows(calls[c].payload.arguments)}

\* C14: a call whose classification or decision fails is rejected with the
\* error thrown: it gets no decision, returns no capability and writes no
\* audit record.
C14_FailClosed ==
    \A c \in CallsThatThrow :
        /\ calls[c].pc = "failed"
        /\ calls[c].error # ""
        /\ calls[c].decision = None
        /\ calls[c].result = None
        /\ LinesOf(c) = {}

\* A call whose arguments JSON.stringify cannot serialize and a call without
\* arguments have both been rejected.
C14_Witness ==
    \E c, d \in FailedCalls :
        /\ "arguments" \in DOMAIN calls[c].payload
        /\ stringifyThrows(calls[c].payload.arguments)
        /\ calls[c].result = None
        /\ "arguments" \notin DOMAIN calls[d].payload
        /\ calls[d].result = None

HashedFields(input) == <<input.action, input.resource, input.arguments>>

C17_AnyFieldChangesFingerprint ==
    \A i, j \in DOMAIN hashes :
        (/\ hashes[i].timestamp = hashes[j].timestamp
         /\ \/ hashes[i].input # hashes[j].input
            \/ hashes[i].verdict # hashes[j].verdict)
            => hashes[i].decision_hash # hashes[j].decision_hash

\* C17 amended: two fingerprints computed at the same decided_at for proposals
\* that differ in action, resource or arguments, or for different verdicts,
\* differ; the metadata of the proposal is not part of the fingerprint.
C17_HashedFieldChangesFingerprint ==
    \A i, j \in DOMAIN hashes :
        (/\ hashes[i].timestamp = hashes[j].timestamp
         /\ \/ HashedFields(hashes[i].input) # HashedFields(hashes[j].input)
            \/ hashes[i].verdict # hashes[j].verdict)
            => hashes[i].decision_hash # hashes[j].decision_hash

\* Two proposals that differ only in the resource were fingerprinted with the
\* same verdict at the same instant, and the digests differ.
C17_Witness ==
    /\ Len(hashes) = 2
    /\ hashes[1].timestamp = hashes[2].timestamp
    /\ hashes[1].verdict = hashes[2].verdict
    /\ hashes[1].input = HashInputBase
    /\ hashes[2].input = [HashInputBase EXCEPT !.resource = "/etc/shadow"]
    /\ hashes[1].decision_hash # hashes[2].decision_hash

\* The vocabulary and weight of each category of the classifier, as the claim
\* states them: matched in the lower-cased serialized arguments, and in the
\* resource for the protected-path markers.
ArgumentCategories ==
    {[words |-> {"rm ", "delete", "drop"}, weight |-> 3],
     [words |-> {"sudo", "root", "admin"}, weight |-> 2],
     [words |-> {"password", "secret", "token"}, weight |-> 2],
     [words |-> {"production", "prod"}, weight |-> 1]}
ProtectedPathMarkers == {"/etc/", "system"}

RECURSIVE SumWeights(_)
SumWeights(categories) ==
    IF categories = {} THEN 0
    ELSE LET cat == CHOOSE x \in categories : TRUE
         IN  cat.weight + SumWeights(categories \ {cat})

\* The sum of the weights of the matching categories, each counted once.
CategoryScore(input) ==
    LET text == toLowerCase(JSONstringify(input.arguments))
        matched == {cat \in ArgumentCategories :
                        \E w \in cat.words : includes(text, w)}
    IN  SumWeights(matched)
        + (IF \E w \in ProtectedPathMarkers : includes(input.resource, w)
           THEN 2 ELSE 0)
CategoryScores == [input \in DecisionInputs |-> CategoryScore(input)]

\* C18: the risk score of every proposal evaluated is the sum of the weights
\* of its matching categories, each counted once, capped at 10, and lies in
\* 0..10; it is the score of the decision when the action is in neither list.
C18_ScoreIsCappedCategorySum ==
    \A i \in DOMAIN evals :
        LET input == evals[i].input
            expected == IF CategoryScores[input] < 10 THEN CategoryScores[input] ELSE 10
        IN  /\ RiskScores[input] = expected
            /\ RiskScores[input] \in 0..10
            /\ evals[i].decision.risk_score \in 0..10
            /\ InNeitherList(input.action) => evals[i].decision.risk_score = expected

\* Arguments in which two words of one category occur ("production" and
\* "prod") scored 1, and arguments matching every category scored 10.
C18_Witness ==
    /\ Len(evals) = 2
    /\ evals[1].input = DecisionInput("execute_command", "unknown", ArgsDeleteFiles)
    /\ evals[1].decision.risk_score = 1
    /\ evals[2].input = DecisionInput("execute_command", "/etc/shadow", ArgsDropProd)
    /\ evals[2].decision.risk_score = 10

\* C19: every evaluation of the tool call execute_command with arguments
\* {command: "sudo rm -rf /data"}, its resource extracted from the arguments,
\* returns STOP with a risk score of 8 or more.
C19_SudoRmStops ==
    \A i \in DOMAIN evals :
        evals[i].input =
            DecisionInput("execute_command", extractResource(ArgsSudoRmOnly),
                          ArgsSudoRmOnly)
            => /\ evals[i].decision.verdict = "STOP"
               /\ evals[i].decision.risk_score >= 8

\* C20: the total, STOP, HOLD and ALLOW counts of the manifest generate wrote
\* equal the tallies over every line of the decision log it was generated from.
C20_ManifestCountsMatchLog ==
    artifact # None =>
        LET body == artifact.manifest.body
            log == artifact.read
            Tally(verdict) ==
                Cardinality({i \in DOMAIN log : log[i].decision = verdict})
        IN  /\ body.total_decisions = Len(log)
            /\ body.stop_count = Tally("STOP")
            /\ body.hold_count = Tally("HOLD")
            /\ body.allow_count = Tally("ALLOW")

\* The digest a verifier obtains from the written manifest: parse it, remove
\* the manifest_sha256 member, serialize again, hash.
VerifierDigest(file) ==
    sha256(stringifyPretty(
        SelectSeq(parseMembers(file), LAMBDA m : m.k # "manifest_sha256")))

\* The manifest_sha256 member of the written manifest.
RecordedDigest(file) ==
    LET members == parseMembers(file)
        i == CHOOSE j \in DOMAIN members : members[j].k = "manifest_sha256"
    IN  members[i].v

AppendedTo(old, new) ==
    /\ Len(old) <= Len(new)
    /\ Len(new) <= Len(old) + 1
    /\ SubSeq(new, 1, Len(old)) = old

\* C22: every step of logDecision, beforeExecution, afterExecution and
\* logOpenClawDecision leaves the lines already in either decision log as they
\* were and adds at most one line, at the end.
C22_LogsAppendOnly ==
    [][/\ AppendedTo(decisionLog, decisionLog')
       /\ AppendedTo(openclawLog, openclawLog')]_vars

C22_Witness ==
    /\ Len(decisionLog) = 2
    /\ decisionLog[1] # decisionLog[2]
    /\ hookReturns = <<FALSE>>

\* The calls that have returned a STOP or HOLD result.
ReturnedBlocked ==
    {c \in CallIds : /\ calls[c].pc = "returned"
                     /\ calls[c].result.verdict \in {"STOP", "HOLD"}}

\* C23: a STOP or HOLD result that receiveToolCall has returned carries no
\* execute handle and no later step changes it: it stays the result of that
\* call, with the same verdict and still without a handle.
C23_VerdictTerminal ==
    [][\A c \in ReturnedBlocked :
            /\ "execute" \notin DOMAIN calls[c].result
            /\ calls'[c].pc = "returned"
            /\ calls'[c].result = calls[c].result]_vars

C23_Witness ==
    \E c \in ReturnedBlocked :
        /\ calls[c].result.verdict = "HOLD"
        /\ Len(calls[c].returns) = 2
        /\ \E other \in CallIds \ {c} : calls[other].pc = "returned"

\* The result the adapter in use builds from a decision.
ResultOf(decision, payload) ==
    IF adapter = "handlers"
    THEN handlersResult(decision, payload, PROOF_MANIFEST_PATH, now)
    ELSE inlineResult(decision, payload, PROOF_MANIFEST_PATH)

\* C24: every result receiveToolCall has returned carries a non-empty reason,
\* the reason of its decision; and from an ALLOW decision without a reason the
\* adapter builds a result whose reason is the generic "Execution allowed".
C24_ResultsCarryReason ==
    \A c \in CallIds :
        calls[c].pc = "returned" =>
            /\ calls[c].result.reason # ""
            /\ calls[c].result.reason = calls[c].decision.reason
            /\ calls[c].result.verdict = "ALLOW" =>
                    ResultOf([calls[c].decision EXCEPT !.reason = ""],
                             calls[c].payload).reason = "Execution allowed"

C24_Witness ==
    /\ adapter = "handlers"
    /\ \E c, e \in CallIds :
        /\ calls[c].pc = "returned" /\ calls[c].result.verdict = "STOP"
        /\ calls[c].result.reason # ""
        /\ calls[e].pc = "returned" /\ calls[e].result.verdict = "ALLOW"
        /\ calls[e].result.reason # ""

\* The manifest on disk is made of lines of the snapshot only: its decisions
\* are the last lines of what generate read, and its counts tally them.
ManifestOfSnapshot ==
    artifact # None =>
        LET body == artifact.manifest.body
            read == artifact.read
        IN  /\ Len(read) <= Len(decisionLog)
            /\ SubSeq(decisionLog, 1, Len(read)) = read
            /\ \E k \in DOMAIN read : body.decisions = SubSeq(read, k, Len(read))
            /\ body.total_decisions = Len(body.decisions)
            /\ body.stop_count + body.hold_count + body.allow_count
                    = Len(body.decisions)
            /\ RecordedDigest(artifact.file)
                    = sha256(stringifyObject(body, ManifestKeys))

C26_GuardsPartitionResults ==
    \A c \in CallIds :
        calls[c].pc = "returned" =>
            LET verdict == calls[c].decision.verdict
                result == calls[c].result
            IN  /\ result.verdict = verdict
                /\ canExecute(result) <=> verdict = "ALLOW"
                /\ executionAbsent(result) <=> verdict \in {"STOP", "HOLD"}
                /\ canExecute(result) # executionAbsent(result)

C26_Witness ==
    \E c, e \in CallIds :
        /\ calls[c].pc = "returned" /\ calls[e].pc = "returned"
        /\ calls[c].decision.verdict = "HOLD" /\ ~canExecute(calls[c].result)
        /\ calls[e].decision.verdict = "ALLOW" /\ canExecute(calls[e].result)

\* The object literal of the type tests: the members of value and an execute
\* function besides.
WithExecute(value) ==
    [k \in DOMAIN value \cup {"execute"} |->
        IF k = "execute" THEN [calls |-> <<>>, value |-> [success |-> FALSE]]
        ELSE value[k]]

\* C27: a STOP or HOLD result that receiveToolCall returned is of type
\* ExecutionCapability<'STOP'> or <'HOLD'>; the same value with an execute
\* member added is not of that type, and no value of that type has an execute
\* member that could be called.
C27_NoExecuteOnStopOrHoldType ==
    \A c \in ReturnedBlocked :
        LET result == calls[c].result
            V == result.verdict
        IN  /\ ExecutionCapability(V, result)
            /\ ~ExecutionCapability(V, WithExecute(result))
            /\ \A value \in {result, WithExecute(result)} :
                    ExecutionCapability(V, value) => "execute" \notin DOMAIN value

C27_Witness ==
    \E c, e \in ReturnedBlocked :
        /\ calls[c].result.verdict = "STOP"
        /\ calls[e].result.verdict = "HOLD"
        /\ ~ExecutionCapability("STOP", WithExecute(calls[c].result))
        /\ ~ExecutionCapability("HOLD", WithExecute(calls[e].result))

\* C28: the risk_score of every Decision evaluateDecision returned is an
\* integer in 0..10 in the band of its verdict: at least 8 for STOP, 5 to 7 for
\* HOLD, below 5 for ALLOW, whether a list or the score decided.
C28_ScoreInBandOfVerdict ==
    \A i \in DOMAIN evals :
        LET score == evals[i].decision.risk_score
            verdict == evals[i].decision.verdict
        IN  /\ score \in 0..10
            /\ verdict = "STOP" => score >= 8
            /\ verdict = "HOLD" => (5 <= score /\ score <= 7)
            /\ verdict = "ALLOW" => score < 5

\* A forbidden action and an approval-required one whose arguments score 0
\* were decided with scores 10 and 7.
C28_Witness ==
    /\ Len(evals) = 2
    /\ evals[1].input.action \in FORBIDDEN_ACTIONS
    /\ RiskScores[evals[1].input] = 0
    /\ evals[1].decision.risk_score = 10
    /\ evals[2].input.action \in APPROVAL_REQUIRED_ACTIONS
    /\ RiskScores[evals[2].input] = 0
    /\ evals[2].decision.risk_score = 7

\* C29: the classification of a call with one key more in its arguments has a
\* risk score at least that of the call without it, and for an action in
\* neither list a verdict at least as restrictive.
C29_AddedKeyNeverLowersScore ==
    \A i \in DOMAIN classified :
        LET pair == classified[i]
        IN  /\ pair.after.risk_score >= pair.before.risk_score
            /\ InNeitherList(pair.payload.tool_name) =>
                    Restrictiveness(pair.after.verdict)
                        >= Restrictiveness(pair.before.verdict)

\* C30: every executeAction call made through an execute handle receives the
\* tool name and the arguments of the DecisionInput that was classified,
\* fingerprinted and logged for its dispatch, whatever the caller did to the
\* payload after receiveToolCall returned.
C30_ExecutesWhatWasClassified ==
    \A run \in executorRuns :
        run.invocation > 0 =>
            LET logged == calls[run.call].entry.input
            IN  /\ run.context.tool_name = logged.action
                /\ run.context.arguments = logged.arguments

\* C31: for one dispatch the executor runs at most once, however many times
\* the caller invokes the execute handle of its result.
C31_HandleIsSingleUse ==
    \A c \in CallIds : Cardinality(RunsOf(c)) <= 1

\* The key-value mapping an arguments object is, whatever the order of its keys.
Mapping(args) == {args[i] : i \in DOMAIN args}

\* C32: two fingerprints computed at the same decided_at for the same verdict
\* and for proposals with the same action, resource and argument mapping are
\* identical, whatever the order of the argument keys.
C32_KeyOrderIrrelevant ==
    \A i, j \in DOMAIN hashes :
        (/\ hashes[i].input.action = hashes[j].input.action
         /\ hashes[i].input.resource = hashes[j].input.resource
         /\ Mapping(hashes[i].input.arguments) = Mapping(hashes[j].input.arguments)
         /\ hashes[i].verdict = hashes[j].verdict
         /\ hashes[i].timestamp = hashes[j].timestamp)
            => hashes[i].decision_hash = hashes[j].decision_hash

\* The lines of the JSONL decision log with the given verdict.
LoggedWith(verdict) ==
    {i \in DOMAIN openclawLog : openclawLog[i].entry.decision.verdict = verdict}

\* C33: once every logOpenClawDecision that was started has completed, the
\* proof manifest has one decision for each line of the decision log, and its
\* total, stop, hold and allow counts are the tallies of that log.
C33_ManifestMatchesLog ==
    (InFlightCalls = {} /\ openclawLog # <<>>) =>
        /\ proofManifest # None
        /\ Len(proofManifest.decisions) = Len(openclawLog)
        /\ proofManifest.metadata.total_decisions = Len(openclawLog)
        /\ proofManifest.metadata.stop_count = Cardinality(LoggedWith("STOP"))
        /\ proofManifest.metadata.hold_count = Cardinality(LoggedWith("HOLD"))
        /\ proofManifest.metadata.allow_count = Cardinality(LoggedWith("ALLOW"))

\* The mediations whose beforeExecution has returned; the n-th return belongs
\* to the n-th mediation.
Mediated == {m \in MediationIds : mediations[m].pc # "idle"}

\* Every beforeExecution answered true for ALLOW and false for STOP and HOLD.
ReturnsTrueIffAllow ==
    \A m \in Mediated :
        /\ m \in DOMAIN hookReturns
        /\ hookReturns[m] <=> mediations[m].decision = "ALLOW"

\* A step in which beforeExecution returns: with false it has appended one
\* record, with the STOP or HOLD decision it was given; with true none.
BeforeExecutionWrites ==
    hookReturns' # hookReturns =>
        LET m == Len(hookReturns')
        IN  IF hookReturns'[m]
            THEN decisionLog' = decisionLog
            ELSE /\ Len(decisionLog') = Len(decisionLog) + 1
                 /\ SubSeq(decisionLog', 1, Len(decisionLog)) = decisionLog
                 /\ decisionLog'[Len(decisionLog')].decision = mediations'[m].decision
                 /\ mediations'[m].decision \in {"STOP", "HOLD"}

C35_ResultOnlyOnAllow ==
    \A i \in DOMAIN decisionLog :
        /\ decisionLog[i].decision # "ALLOW" => decisionLog[i].execution_result = "null"
        /\ decisionLog[i].execution_result \in ExecutionResults \cup {"null"}

\* logDecision was called directly for STOP and for ALLOW; the STOP record and
\* an ALLOW record written without a result both have execution_result null.
C35_Witness ==
    /\ hookReturns = <<>>
    /\ Len(decisionLog) = 2
    /\ decisionLog[1].decision = "STOP" /\ decisionLog[1].execution_result = "null"
    /\ decisionLog[2].decision = "ALLOW" /\ decisionLog[2].execution_result = "null"

RECURSIVE Concatenated(_)
Concatenated(seqs) ==
    IF seqs = <<>> THEN <<>> ELSE Head(seqs) \o Concatenated(Tail(seqs))

\* The index in the concatenation at which the s-th sequence starts.
StartOf(seqs, s) == 1 + Len(Concatenated(SubSeq(seqs, 1, s - 1)))

\* C37: the sessions groupBySession returned for the decisions generate read
\* concatenate to those decisions in log order, none of them is empty, and a
\* session starts at a decision other than the first exactly where the gap to
\* the previous timestamp exceeds 60000 ms; a gap of exactly 60000 ms does not
\* start one.
C37_SessionsSplitAtGaps ==
    artifact # None =>
        LET read == artifact.read
            sessions == artifact.sessions
            Starts == {StartOf(sessions, s) : s \in DOMAIN sessions}
        IN  /\ Concatenated(sessions) = read
            /\ \A s \in DOMAIN sessions : sessions[s] # <<>>
            /\ \A i \in DOMAIN read :
                   i > 1 =>
                       (i \in Starts <=>
                            getTime(read[i].timestamp)
                                - getTime(read[i - 1].timestamp) > 60000)

\* generate grouped a log of two decisions exactly 60000 ms apart: they are
\* one session.
C37_Witness ==
    /\ artifact # None
    /\ Len(artifact.read) = 2
    /\ getTime(artifact.read[2].timestamp) - getTime(artifact.read[1].timestamp)
           = 60000
    /\ Len(artifact.sessions) = 1
    /\ Len(artifact.sessions[1]) = 2

\* The log is one generate gets no decision from: missing, unreadable, empty,
\* or holding a line that is not valid JSON.
LogUnusable ==
    \/ logAccess # "ok"
    \/ decisionLog = <<>>
    \/ \E i \in DOMAIN decisionLog : ~isJSON(decisionLog[i])

\* A generate that starts on an unusable log returns at once, having written
\* nothing.
ReturnsWithoutWriting ==
    (LogUnusable /\ generator.pc = "idle" /\ generator' # generator) =>
        /\ generator'.pc = "idle"
        /\ generator'.console = NoDecisionsFound
        /\ artifact' = artifact

\* C38: when the decision log is missing, unreadable, empty or has a line that
\* is not valid JSON, generate writes neither manifest nor summary and leaves
\* the existing ones as they are; what it writes comes from a log it could use.
C38_UnusableLogWritesNothing ==
    /\ [](generator.pc = "read" =>
              /\ generator.decisions # <<>>
              /\ \A i \in DOMAIN generator.decisions : isJSON(generator.decisions[i]))
    /\ [][ReturnsWithoutWriting]_vars

\* generate wrote a manifest and a summary, a broken line then got into the
\* log, and generate was run again: it returned, and both files are what they
\* were.
C38_Witness ==
    /\ artifact # None
    /\ artifact.file = writtenManifest(artifact.manifest)
    /\ artifact.summary = generateSummary(artifact.manifest)
    /\ \E i \in DOMAIN decisionLog : ~isJSON(decisionLog[i])
    /\ artifact.read = SubSeq(decisionLog, 1, Len(artifact.read))
    /\ generator.pc = "idle"
    /\ generator.console = NoDecisionsFound

\* The string form of the first truthy value among the given keys of args, in
\* the order of the keys, and "unknown" when there is none.
RECURSIVE FirstTruthy(_, _)
FirstTruthy(args, keys) ==
    IF keys = <<>> THEN "unknown"
    ELSE IF has(args, Head(keys)) /\ truthy(get(args, Head(keys)))
         THEN get(args, Head(keys)).s
         ELSE FirstTruthy(args, Tail(keys))

\* C39: extractResource returns the string form of the first truthy value
\* among the keys path, file, resource, target, host, url, in that order, and
\* "unknown" when none of them is present or all are falsy.
C39_FirstTruthyResource ==
    \A i \in DOMAIN extracted :
        extracted[i].resource =
            FirstTruthy(extracted[i].arguments,
                        <<"path", "file", "resource", "target", "host", "url">>)

\* Three calls: path wins over a file written before it, a falsy path is
\* passed over for the file, and arguments whose resource members are all
\* falsy give "unknown".
C39_Witness ==
    /\ Len(extracted) = 3
    /\ extracted[1].arguments = <<[k |-> "file", v |-> StrVal("/etc/shadow")],
                                  [k |-> "path", v |-> StrVal("/tmp/out")]>>
    /\ extracted[1].resource = "/tmp/out"
    /\ extracted[2].arguments = <<[k |-> "path", v |-> StrVal("")],
                                  [k |-> "file", v |-> StrVal("/app/config.json")]>>
    /\ extracted[2].resource = "/app/config.json"
    /\ Len(extracted[3].arguments) = 3
    /\ \A j \in DOMAIN extracted[3].arguments : ~truthy(extracted[3].arguments[j].v)
    /\ extracted[3].resource = "unknown"

=============================================================================
